---- MODULE Spec2Model ----
(***************************************************************************)
(* A model of the htmx language server's file index, syntax-tree cache and *)
(* custom-tag registry (LspFiles, src/src/htmx_tree_sitter.rs), of the     *)
(* project walk that fills them (src/src/config.rs) and of the lexical tag *)
(* scanner (src/src/htmx_tags.rs).                                         *)
(*                                                                         *)
(* Strings are sequences of one-character strings, so that split, find and *)
(* contains are computed as the Rust code computes them.  Option<T> is a   *)
(* sequence of length 0 (None) or 1 (Some).                                *)
(***************************************************************************)
EXTENDS Integers, Sequences, FiniteSets, TLC

VARIABLES
    current,        \* LspFiles.current: the FileId counter
    indexes,        \* LspFiles.indexes: uri -> FileId
    trees,          \* LspFiles.trees: FileId -> <<tree, lang>>
    tags,           \* LspFiles.tags: tag name -> Tag
    document_map,   \* the server's uri -> text map, filled by the walk
    reconciled,     \* FileId -> the text add_tags_from_file last ran on (history)
    last,           \* the last call made on LspFiles and what it returned
    issued,         \* every FileId add_file has returned so far (history)
    walk,           \* the project walk in progress: its queue, diagnostics, result
    lock,           \* owner of the Mutex<LspFiles>: "free", "walk" or a handler
    hpc,            \* handler -> position inside the call it is running
    hcall           \* handler -> the call it is running, its arguments and locals

vars == <<current, indexes, trees, tags, document_map, reconciled, last,
          issued, walk, lock, hpc, hcall>>

lspVars == <<current, indexes, trees, tags>>
concVars == <<lock, hpc, hcall>>

---------------------------------------------------------------------------
(* Bounds of the model *)

\* add_file is not called once the counter has reached MaxFiles
MaxFiles == 3

---------------------------------------------------------------------------
(* Option *)

None == <<>>
Some(x) == <<x>>
IsSome(o) == o # <<>>
Unwrap(o) == o[1]

---------------------------------------------------------------------------
(* str operations of the Rust standard library, as htmx_tags.rs uses them *)

HxAt == <<"h", "x", "@">>
Space == <<" ">>

\* s[from..] with from 0-based
Tail0(s, from) == SubSeq(s, from + 1, Len(s))

\* str::find: the 0-based index of the first occurrence of pat in s
str_find(s, pat) ==
    LET hits == {i \in 0..(Len(s) - Len(pat)) : SubSeq(s, i + 1, i + Len(pat)) = pat}
    IN  IF hits = {} THEN None
        ELSE Some(CHOOSE i \in hits : \A j \in hits : i <= j)

str_contains(s, pat) == IsSome(str_find(s, pat))

str_starts_with(s, pat) ==
    Len(s) >= Len(pat) /\ SubSeq(s, 1, Len(pat)) = pat

\* str::split: the pieces between the occurrences of pat, at least one piece
RECURSIVE str_split(_, _)
str_split(s, pat) ==
    LET at == str_find(s, pat)
    IN  IF ~IsSome(at) THEN <<s>>
        ELSE <<SubSeq(s, 1, Unwrap(at))>>
             \o str_split(Tail0(s, Unwrap(at) + Len(pat)), pat)

\* Iterator::filter over a sequence
RECURSIVE seq_filter_nospace(_)
seq_filter_nospace(parts) ==
    IF parts = <<>> THEN <<>>
    ELSE (IF str_contains(Head(parts), Space) THEN <<>> ELSE <<Head(parts)>>)
         \o seq_filter_nospace(Tail(parts))

---------------------------------------------------------------------------
(* Tag and the whole-line scan *)

Tag(name, start, end, file, line) ==
    [name |-> name, start |-> start, end |-> end, file |-> file, line |-> line]

set_file(tag, index) == [tag EXCEPT !.file = index]
set_line(tag, line) == [tag EXCEPT !.line = line]

get_tag(line) ==
    LET parts == str_split(line, HxAt)
        kept  == seq_filter_nospace(parts)
    IN  IF kept = <<>> THEN None
        ELSE LET first == Head(str_split(Head(kept), Space))
                 full  == HxAt \o first
                 start == str_find(line, full)
             IN  IF IsSome(start)
                 THEN Some(Tag(first, Unwrap(start), Unwrap(start) + 2 + Len(first), 0, 0))
                 ELSE None

\* in_tag: the tag of the line, if its columns hold the point
in_tag(line, point) ==
    LET tag == get_tag(line)
    IN  IF IsSome(tag) /\ point.column >= Unwrap(tag).start /\ point.column <= Unwrap(tag).end
        THEN tag
        ELSE None

---------------------------------------------------------------------------
(* Maps (DashMap, HashMap) as functions with a finite domain *)

EmptyMap == [k \in {} |-> 0]
Put(m, k, v) == [x \in (DOMAIN m) \cup {k} |-> IF x = k THEN v ELSE m[x]]
Remove(m, ks) == [x \in (DOMAIN m) \ ks |-> m[x]]

---------------------------------------------------------------------------
(* LspFiles: the operations on a record s of its fields.                   *)
(* An operation that returns a value yields [s |-> the new fields,         *)
(* ret |-> the value].                                                     *)

LangTypes == {"Template", "JavaScript", "Backend"}

Default ==
    [current |-> 0, indexes |-> EmptyMap, trees |-> EmptyMap, tags |-> EmptyMap]

\* a reset that clears nothing
reset_noop(s) == s

\* a reset that also rewinds the FileId counter
reset_rewind(s) == Default

reset(s) ==
    [s EXCEPT !.indexes = EmptyMap, !.trees = EmptyMap, !.tags = EmptyMap]

\* a deletion that removes nothing
delete_tags_noop(s, index) == s

delete_tags_by_index(s, index) ==
    LET owned == {n \in DOMAIN s.tags : s.tags[n].file = index}
    IN  [s EXCEPT !.tags = Remove(s.tags, owned)]

\* Ok(()) is Some("Ok") here and Err(tag) is the pair <<"Err", tag>>
Ok == <<"Ok">>
Err(x) == <<"Err", x>>
IsErr(r) == Len(r) = 2 /\ r[1] = "Err"

\* a registry that overwrites instead of rejecting
add_tag_overwrite(s, tag) ==
    [s |-> [s EXCEPT !.tags = Put(s.tags, tag.name, tag)], ret |-> Ok]

add_tag(s, tag) ==
    IF tag.name \in DOMAIN s.tags
    THEN [s |-> s, ret |-> Err(tag)]
    ELSE [s |-> [s EXCEPT !.tags = Put(s.tags, tag.name, tag)], ret |-> Ok]

lsp_get_tag(s, key) ==
    IF key \in DOMAIN s.tags THEN Some(s.tags[key]) ELSE None

get_index(s, key) ==
    IF key \in DOMAIN s.indexes THEN Some(s.indexes[key]) ELSE None

\* a registration without the duplicate check
add_file_unchecked(s, key) ==
    [s   |-> [s EXCEPT !.current = s.current + 1,
                       !.indexes = Put(s.indexes, key, s.current)],
     ret |-> Some(s.current)]

\* a registration that stores the counter without advancing it
add_file_no_bump(s, key) ==
    IF key \in DOMAIN s.indexes THEN [s |-> s, ret |-> None]
    ELSE [s |-> [s EXCEPT !.indexes = Put(s.indexes, key, s.current)],
          ret |-> Some(s.current)]

add_file(s, key) ==
    IF ~IsSome(get_index(s, key))
    THEN LET old == s.current
         IN  [s   |-> [s EXCEPT !.current = old + 1,
                                !.indexes = Put(s.indexes, key, old)],
              ret |-> Some(old)]
    ELSE [s |-> s, ret |-> None]

\* get_uri returns the first entry of the DashMap iteration whose value is
\* index; the iteration order is not specified, so every entry with that
\* value is a possible answer.
get_uri_matches(s, index) == {u \in DOMAIN s.indexes : s.indexes[u] = index}

get_uri(s, index) ==
    IF get_uri_matches(s, index) = {} THEN {None}
    ELSE {Some(u) : u \in get_uri_matches(s, index)}

\* Parsers::parse hands the text to the tree-sitter parser of the language;
\* the tree is represented by the text it was parsed from and its grammar.
parse(lang_type, text) == Some([grammar |-> lang_type, src |-> text])

\* an add_tree that takes the caller's classification when one is passed
add_tree_reclassify(s, index, lang_type, text) ==
    LET lang == IF IsSome(lang_type) THEN lang_type
                ELSE IF index \in DOMAIN s.trees THEN Some(s.trees[index][2])
                ELSE None
    IN  IF IsSome(lang)
        THEN [s EXCEPT !.trees = Put(s.trees, index,
                                     <<Unwrap(parse(Unwrap(lang), text)), Unwrap(lang)>>)]
        ELSE s

add_tree(s, index, lang_type, text) ==
    IF index \in DOMAIN s.trees
    THEN LET old_tree == s.trees[index]
             tree == parse(old_tree[2], text)
         IN  IF IsSome(tree)
             THEN [s EXCEPT !.trees = Put(s.trees, index, <<Unwrap(tree), old_tree[2]>>)]
             ELSE s
    ELSE IF IsSome(lang_type)
         THEN LET tree == parse(Unwrap(lang_type), text)
              IN  IF IsSome(tree)
                  THEN [s EXCEPT !.trees = Put(s.trees, index, <<Unwrap(tree), Unwrap(lang_type)>>)]
                  ELSE s
         ELSE s

get_tree(s, index) ==
    IF index \in DOMAIN s.trees THEN Some(s.trees[index]) ELSE None

\* HtmxQuery::try_from(lang_type): there is no tag query for templates
HtmxQuery_try_from(lang_type) ==
    IF lang_type = "Template" THEN None ELSE Some(lang_type)

\* query_tag with full = true: one tag for every line of the text in which
\* the whole-line scan finds one, its line set to the row of the line
RECURSIVE query_tag_from(_, _)
query_tag_from(text, row) ==
    IF row >= Len(text) THEN <<>>
    ELSE LET t == get_tag(text[row + 1])
         IN  (IF IsSome(t) THEN <<set_line(Unwrap(t), row)>> ELSE <<>>)
             \o query_tag_from(text, row + 1)

\* the tag query captures the comment nodes of a script or backend tree; a
\* tree of the markup grammar has none
query_tag(tree, text) ==
    IF tree.grammar = "Template" THEN <<>> ELSE query_tag_from(text, 0)

\* the loop of add_tags_from_file over the extracted tags
RECURSIVE insert_tags(_, _, _, _)
insert_tags(s, found, index, diags) ==
    IF found = <<>> THEN [s |-> s, diags |-> diags]
    ELSE LET r == add_tag(s, set_file(Head(found), index))
         IN  insert_tags(r.s, Tail(found), index,
                         IF IsErr(r.ret) THEN Append(diags, r.ret[2]) ELSE diags)

\* a reconciliation that inserts without removing the old tags of the file
add_tags_from_file_no_delete(s, index, lang_type, text, diags) ==
    IF ~IsSome(HtmxQuery_try_from(lang_type)) THEN [s |-> s, diags |-> diags]
    ELSE IF index \in DOMAIN s.trees
         THEN LET found == query_tag(s.trees[index][1], text)
              IN  insert_tags(s, found, index, diags)
         ELSE [s |-> s, diags |-> diags]

\* yields [s, diags]: the new fields and the caller's diags vector
add_tags_from_file(s, index, lang_type, text, diags) ==
    IF ~IsSome(HtmxQuery_try_from(lang_type)) THEN [s |-> s, diags |-> diags]
    ELSE IF index \in DOMAIN s.trees
         THEN LET found == query_tag(s.trees[index][1], text)
              IN  insert_tags(delete_tags_by_index(s, index), found, index, diags)
         ELSE [s |-> s, diags |-> diags]

\* add_tags_from_file reaches the extraction: the language has a tag query
\* and the file has a tree
reconciles(s, index, lang_type) ==
    IsSome(HtmxQuery_try_from(lang_type)) /\ index \in DOMAIN s.trees

\* an edit that also re-extracts the tags of the file
on_change_retag(s, uri, text) ==
    LET file == get_index(s, uri)
    IN  IF ~IsSome(file) THEN s
        ELSE LET s1 == add_tree(s, Unwrap(file), None, text)
             IN  IF Unwrap(file) \in DOMAIN s1.trees
                 THEN add_tags_from_file(s1, Unwrap(file), s1.trees[Unwrap(file)][2],
                                         text, <<>>).s
                 ELSE s1

\* on_change: the new fields (the function itself always returns None)
on_change(s, uri, text) ==
    LET file == get_index(s, uri)
    IN  IF ~IsSome(file) THEN s
        ELSE add_tree(s, Unwrap(file), None, text)

\* a save without the early return for templates
saved_template_too(s, uri, diagnostics, lang, dm) ==
    LET file == get_index(s, uri)
    IN  IF ~IsSome(file) \/ ~IsSome(lang) \/ uri \notin DOMAIN dm
        THEN [s |-> s, diags |-> diagnostics, ret |-> None]
        ELSE LET r == add_tags_from_file(s, Unwrap(file), Unwrap(lang),
                                         dm[uri], diagnostics)
             IN  [s |-> r.s, diags |-> r.diags, ret |-> Some(r.diags)]

\* saved: lang is what file_ext(path, config) answers for the URI, dm the
\* document_map.  Yields the new fields, the caller's diagnostics vector and
\* the Option<Vec<Tag>> returned.
saved(s, uri, diagnostics, lang, dm) ==
    LET file == get_index(s, uri)
    IN  IF ~IsSome(file) \/ ~IsSome(lang)
        THEN [s |-> s, diags |-> diagnostics, ret |-> None]
        ELSE IF Unwrap(lang) = "Template"
             THEN [s |-> s, diags |-> diagnostics, ret |-> None]
             ELSE IF uri \notin DOMAIN dm
                  THEN [s |-> s, diags |-> diagnostics, ret |-> None]
                  ELSE LET r == add_tags_from_file(s, Unwrap(file), Unwrap(lang),
                                                   dm[uri], diagnostics)
                       IN  [s |-> r.s, diags |-> r.diags, ret |-> Some(r.diags)]

---------------------------------------------------------------------------
(* The project on disk and the configuration *)

LineA == <<"/", "/", " ", "h", "x", "@", "a">>
LineB == <<"/", "/", " ", "h", "x", "@", "b">>

TextAB == <<LineA, LineB>>
TextBB == <<LineB, LineB>>

Texts == {TextAB, TextBB}

\* Path::extension
path_extension(path) ==
    CASE path = "src/a.rs" -> Some("rs")
      [] path = "src/b.rs" -> Some("rs")
      [] path = "tpl/t.html" -> Some("html")
      [] OTHER -> None

Paths == {"src/a.rs", "src/b.rs", "tpl/t.html"}

\* format!("file://{}", name)
Uri(name) == <<"file://", name>>

Uris == {Uri(p) : p \in Paths}

\* walkdir::WalkDir::new(root): the root itself, then what is under it; a
\* root that does not exist yields one error
DirEntry(path) == [kind |-> "dir", path |-> path]
FileEntry(path) == [kind |-> "file", path |-> path]
ErrorEntry(path) == [kind |-> "error", path |-> path]

WalkDir(root) ==
    CASE root = "src" -> <<DirEntry("src"), FileEntry("src/a.rs"), FileEntry("src/b.rs")>>
      [] root = "tpl" -> <<DirEntry("tpl"), FileEntry("tpl/t.html")>>
      [] OTHER -> <<ErrorEntry(root)>>

HtmxConfig(lang, template_ext, templates, js_tags, backend_tags) ==
    [lang |-> lang, template_ext |-> template_ext, templates |-> templates,
     js_tags |-> js_tags, backend_tags |-> backend_tags]

Configs ==
    { HtmxConfig("rust", "html", <<"tpl">>, <<>>, <<"src">>),
      HtmxConfig("rust", "html", <<>>, <<"src">>, <<"src">>),
      HtmxConfig("rust", "rs", <<"src">>, <<>>, <<"src">>),
      HtmxConfig("rust", "html", <<"tpl">>, <<>>, <<>>),
      HtmxConfig("rust", "html", <<"tpl">>, <<>>, <<"src", "gone">>) }

is_backend(config, ext) ==
    CASE config.lang = "rust" -> ext = "rs"
      [] config.lang = "python" -> ext = "py"
      [] config.lang = "go" -> ext = "go"
      [] OTHER -> FALSE

\* HtmxConfig::file_ext: the set of classifications of the path (LangTypes
\* one or two), None when the extension is not one of the project's
file_ext(config, path) ==
    LET e == path_extension(path)
    IN  IF ~IsSome(e) THEN None
        ELSE LET other == Unwrap(e)
             IN  IF other \in {"js", "ts"} THEN Some({"JavaScript"})
                 ELSE IF is_backend(config, other)
                      THEN (IF config.template_ext = other
                            THEN Some({"Backend", "Template"})
                            ELSE Some({"Backend"}))
                      ELSE IF other = config.template_ext
                           THEN Some({"Template"})
                           ELSE None

\* LangTypes::is_lang
is_lang(ext, lang_type) == lang_type \in ext

\* LangType::from(index), the index into [templates, js_tags, backend_tags]
LangType_from(index) ==
    CASE index = 0 -> "Template"
      [] index = 1 -> "JavaScript"
      [] OTHER -> "Backend"

---------------------------------------------------------------------------
(* config.rs: add_file and walkdir *)

\* add_file of config.rs for one path.  canon_ok says whether canonicalize
\* succeeds, content is what read_to_string returns (None when it fails).
\* Yields the new fields, the new document_map, the new diags and the
\* Option<bool> returned.
config_add_file(s, dm, diags, path, lang_type, canon_ok, content) ==
    IF ~canon_ok
    THEN [s |-> s, dm |-> dm, diags |-> diags, ret |-> None]
    ELSE LET name == path
             r == add_file(s, Uri(name))
         IN  IF ~IsSome(r.ret)
             THEN [s |-> s, dm |-> dm, diags |-> diags, ret |-> None]
             ELSE IF ~IsSome(content)
                  THEN [s |-> r.s, dm |-> dm, diags |-> diags, ret |-> None]
                  ELSE LET file == Unwrap(r.ret)
                           text == Unwrap(content)
                           s1 == add_tree(r.s, file, Some(lang_type), text)
                           r2 == add_tags_from_file(s1, file, lang_type, text, diags)
                       IN  [s |-> r2.s, dm |-> Put(dm, Uri(name), text),
                            diags |-> r2.diags, ret |-> Some(TRUE)]

\* the entries the three nested loops of walkdir visit, in order, each with
\* the lang_type of its directory list and the root it was found under
RECURSIVE roots_queue(_, _)
roots_queue(lang_type, dir) ==
    IF dir = <<>> THEN <<>>
    ELSE LET root == Head(dir)
             es == WalkDir(root)
         IN  [i \in 1..Len(es) |-> [lang_type |-> lang_type, root |-> root, entry |-> es[i]]]
             \o roots_queue(lang_type, Tail(dir))

walk_queue(config) ==
    roots_queue(LangType_from(0), config.templates)
    \o roots_queue(LangType_from(1), config.js_tags)
    \o roots_queue(LangType_from(2), config.backend_tags)

---------------------------------------------------------------------------
(* State *)

Handlers == {"h1", "h2"}

LS == [current |-> current, indexes |-> indexes, trees |-> trees, tags |-> tags]

SetLS(s) ==
    /\ current' = s.current
    /\ indexes' = s.indexes
    /\ trees' = s.trees
    /\ tags' = s.tags

IdleWalk == [pc |-> "idle"]

\* one entry of the call log: the call, its arguments, what it returned and
\* whether it changed a field of LspFiles
Call(op, arg, ret, s) == [op |-> op, arg |-> arg, ret |-> ret, changed |-> (s # LS)]

\* the log keeps the most recent calls, newest first
Log(entry, depth) ==
    last' = SubSeq(<<entry>> \o last, 1, IF Len(last) + 1 < depth THEN Len(last) + 1 ELSE depth)

IsCall(k, op) == Len(last) >= k /\ last[k].op = op

Init ==
    /\ current = Default.current
    /\ indexes = Default.indexes
    /\ trees = Default.trees
    /\ tags = Default.tags
    /\ document_map = EmptyMap
    /\ reconciled = EmptyMap
    /\ last = <<>>
    /\ issued = <<>>
    /\ walk = IdleWalk
    /\ lock = "free"
    /\ hpc = [h \in Handlers |-> "idle"]
    /\ hcall = [h \in Handlers |-> <<>>]

---------------------------------------------------------------------------
(* Calls on the Document Index, one at a time *)

AddFile(key) ==
    /\ lock = "free"
    /\ (key \in DOMAIN indexes \/ current < MaxFiles)
    /\ LET r == add_file(LS, key)
       IN  /\ SetLS(r.s)
           /\ Log(Call("add_file", key, r.ret, r.s), 3)
           /\ issued' = issued \o r.ret
    /\ UNCHANGED <<document_map, reconciled, walk, concVars>>

GetIndex(key) ==
    /\ lock = "free"
    /\ Log(Call("get_index", key, get_index(LS, key), LS), 3)
    /\ UNCHANGED <<lspVars, document_map, reconciled, issued, walk, concVars>>

GetUri(index) ==
    /\ lock = "free"
    /\ \E ret \in get_uri(LS, index) :
           Log(Call("get_uri", index, ret, LS), 3)
    /\ UNCHANGED <<lspVars, document_map, reconciled, issued, walk, concVars>>

Reset ==
    /\ lock = "free"
    /\ SetLS(reset(LS))
    /\ Log(Call("reset", <<>>, <<>>, reset(LS)), 3)
    /\ UNCHANGED <<document_map, reconciled, issued, walk, concVars>>

NextIndex ==
    \/ \E key \in Uris : AddFile(key)
    \/ \E key \in Uris : GetIndex(key)
    \/ \E index \in 0..(MaxFiles - 1) : GetUri(index)
    \/ Reset

SpecIndex == Init /\ [][NextIndex]_vars

---------------------------------------------------------------------------
(* Calls on the Tag Registry, one at a time *)

\* every tag the extractor finds in one of the texts, owned by file 0 or 1
RECURSIVE SeqRange(_)
SeqRange(q) == IF q = <<>> THEN {} ELSE {Head(q)} \cup SeqRange(Tail(q))

ExtractedTags == UNION {SeqRange(query_tag_from(text, 0)) : text \in Texts}

TagInputs == {set_file(t, f) : t \in ExtractedTags, f \in {0, 1}}

AddTag(tag) ==
    /\ lock = "free"
    /\ LET r == add_tag(LS, tag)
       IN  /\ SetLS(r.s)
           /\ Log(Call("add_tag", tag, r.ret, r.s), 4)
    /\ UNCHANGED <<document_map, reconciled, issued, walk, concVars>>

DeleteTagsByIndex(index) ==
    /\ lock = "free"
    /\ LET s == delete_tags_by_index(LS, index)
       IN  /\ SetLS(s)
           /\ Log(Call("delete_tags_by_index", index, <<>>, s), 4)
    /\ UNCHANGED <<document_map, reconciled, issued, walk, concVars>>

GetTag(key) ==
    /\ lock = "free"
    /\ Log(Call("get_tag", key, lsp_get_tag(LS, key), LS), 4)
    /\ UNCHANGED <<lspVars, document_map, reconciled, issued, walk, concVars>>

ResetRegistry ==
    /\ lock = "free"
    /\ SetLS(reset(LS))
    /\ Log(Call("reset", <<>>, <<>>, reset(LS)), 4)
    /\ UNCHANGED <<document_map, reconciled, issued, walk, concVars>>

NextRegistry ==
    \/ \E tag \in TagInputs : AddTag(tag)
    \/ \E index \in {0, 1} : DeleteTagsByIndex(index)
    \/ \E tag \in TagInputs : GetTag(tag.name)
    \/ ResetRegistry

SpecRegistry == Init /\ [][NextRegistry]_vars

---------------------------------------------------------------------------
(* Claims about the Tag Registry and the Document Index *)

\* C1: two tags with the same name inserted one after the other, in either
\* order: when the first insert succeeds the second fails, returns the
\* rejected tag itself and leaves the registry mapping the name to the first
\* tag; into a registry just reset the first succeeds; and after
\* delete_tags_by_index on the file of the tag that succeeded, inserting the
\* second tag succeeds and the name maps to it.
C1_TwoInserts ==
    /\ (IsCall(1, "add_tag") /\ IsCall(2, "add_tag")
        /\ last[1].arg.name = last[2].arg.name /\ last[2].ret = Ok)
       => /\ last[1].ret = Err(last[1].arg)
          /\ ~last[1].changed
          /\ tags[last[1].arg.name] = last[2].arg
    /\ (IsCall(1, "add_tag") /\ IsCall(2, "reset")) => last[1].ret = Ok
    /\ (IsCall(1, "add_tag") /\ IsCall(2, "delete_tags_by_index")
        /\ IsCall(3, "add_tag") /\ IsCall(4, "add_tag")
        /\ last[4].ret = Ok /\ last[2].arg = last[4].arg.file
        /\ last[3].arg.name = last[4].arg.name /\ last[1].arg = last[3].arg)
       => /\ last[3].ret = Err(last[3].arg)
          /\ last[1].ret = Ok
          /\ tags[last[1].arg.name] = last[1].arg

C1_Witness ==
    /\ IsCall(1, "add_tag") /\ IsCall(2, "delete_tags_by_index")
    /\ IsCall(3, "add_tag") /\ IsCall(4, "add_tag")
    /\ last[4].ret = Ok /\ last[2].arg = last[4].arg.file
    /\ last[3].arg.name = last[4].arg.name /\ last[1].arg = last[3].arg
    /\ last[3].arg.file # last[4].arg.file
    /\ last[1].ret = Ok

\* C2: add_file on the same URI twice in a row returns a FileId and then
\* none, the second call changes nothing, and get_index on the URI returns
\* that FileId after the first call and after the second.
C2_RegisterTwice ==
    /\ (IsCall(1, "add_file") /\ IsCall(2, "add_file")
        /\ last[1].arg = last[2].arg)
       => /\ last[1].ret = None
          /\ ~last[1].changed
          /\ IsSome(last[2].ret) => get_index(LS, last[1].arg) = last[2].ret
    /\ (IsCall(1, "add_file") /\ IsCall(2, "reset")) => IsSome(last[1].ret)
    /\ (IsCall(1, "get_index") /\ IsCall(2, "add_file")
        /\ last[1].arg = last[2].arg)
       => /\ IsSome(last[1].ret)
          /\ IsSome(last[2].ret) => last[1].ret = last[2].ret
    /\ (IsCall(1, "get_index") /\ IsCall(2, "add_file") /\ IsCall(3, "add_file")
        /\ last[1].arg = last[2].arg /\ last[2].arg = last[3].arg
        /\ IsSome(last[3].ret))
       => last[1].ret = last[3].ret

C2_Witness ==
    /\ IsCall(1, "get_index") /\ IsCall(2, "add_file") /\ IsCall(3, "add_file")
    /\ last[1].arg = last[2].arg /\ last[2].arg = last[3].arg
    /\ IsSome(last[3].ret) /\ last[2].ret = None
    /\ last[1].ret = last[3].ret

\* C3: the Document Index is a bijection between the registered URIs and
\* their FileIds: no two URIs share a FileId, and get_uri on the FileId that
\* add_file has just returned for a URI can only answer that URI.
C3_Bijection ==
    /\ \A u1 \in DOMAIN indexes : \A u2 \in DOMAIN indexes :
           indexes[u1] = indexes[u2] => u1 = u2
    /\ (IsCall(1, "add_file") /\ IsSome(last[1].ret))
       => get_uri(LS, Unwrap(last[1].ret)) = {Some(last[1].arg)}
    /\ (IsCall(1, "get_uri") /\ IsCall(2, "add_file") /\ IsSome(last[2].ret)
        /\ last[1].arg = Unwrap(last[2].ret))
       => last[1].ret = Some(last[2].arg)

C3_Witness ==
    /\ IsCall(1, "get_uri") /\ IsCall(2, "add_file") /\ IsCall(3, "reset")
    /\ IsSome(last[2].ret) /\ last[1].arg = Unwrap(last[2].ret)
    /\ last[1].ret = Some(last[2].arg)
    /\ current >= 3

\* C4: FileIds are issued in strictly increasing order and none is issued
\* twice, also across a reset: the sequence of all FileIds add_file has
\* returned is strictly increasing, every FileId in use is below the counter,
\* and a FileId issued after a reset is above the one issued before it.
C4_Monotonic ==
    /\ \A i \in 1..Len(issued) : \A j \in 1..Len(issued) :
           i < j => issued[i] < issued[j]
    /\ \A i \in 1..Len(issued) : issued[i] < current
    /\ \A u \in DOMAIN indexes : indexes[u] < current
    /\ (IsCall(1, "add_file") /\ IsCall(2, "reset") /\ IsCall(3, "add_file")
        /\ IsSome(last[3].ret))
       => /\ IsSome(last[1].ret)
          /\ Unwrap(last[1].ret) > Unwrap(last[3].ret)

C4_Witness ==
    /\ IsCall(1, "add_file") /\ IsCall(2, "reset") /\ IsCall(3, "add_file")
    /\ IsSome(last[3].ret) /\ IsSome(last[1].ret)
    /\ last[1].arg = last[3].arg
    /\ Unwrap(last[1].ret) > Unwrap(last[3].ret)

---------------------------------------------------------------------------
(* The project walk (walkdir of config.rs), one directory entry at a time *)

\* a lock that is granted whoever holds it
lock_ignored == TRUE

\* lsp_files.lock(): the Mutex<LspFiles> is taken when nobody holds it
lock_free == lock = "free"

\* what canonicalize and read_to_string may answer for a file: the path does
\* not resolve, the file cannot be read, or its text
FileOutcomes ==
    {[canon_ok |-> FALSE, content |-> None], [canon_ok |-> TRUE, content |-> None]}
    \cup {[canon_ok |-> TRUE, content |-> Some(text)] : text \in Texts}

\* let lsp_files = lsp_files.lock().unwrap();
WalkLock(config) ==
    /\ walk.pc = "idle"
    /\ lock_free
    /\ lock' = "walk"
    /\ walk' = [pc |-> "locked", config |-> config]
    /\ UNCHANGED <<lspVars, document_map, reconciled, last, issued, hpc, hcall>>

\* a walk that gives the lock back once it has reset the maps
WalkReset_unlocked ==
    /\ walk.pc = "locked"
    /\ SetLS(reset(LS))
    /\ walk' = [pc |-> "loop", config |-> walk.config,
                queue |-> walk_queue(walk.config), diagnostics |-> <<>>,
                base |-> current, seen |-> <<>>]
    /\ lock' = "free"
    /\ reconciled' = EmptyMap
    /\ UNCHANGED <<document_map, last, issued, hpc, hcall>>

\* let mut diagnostics = vec![]; lsp_files.reset();
\* base and seen are history: the counter at the reset and the files added
WalkReset ==
    /\ walk.pc = "locked"
    /\ SetLS(reset(LS))
    /\ walk' = [pc |-> "loop", config |-> walk.config,
                queue |-> walk_queue(walk.config), diagnostics |-> <<>>,
                base |-> current, seen |-> <<>>]
    /\ reconciled' = EmptyMap
    /\ UNCHANGED <<document_map, last, issued, concVars>>

WalkContinue == walk' = [walk EXCEPT !.queue = Tail(walk.queue)]

\* the body of the innermost loop for the next entry
WalkEntry ==
    /\ walk.pc = "loop"
    /\ walk.queue # <<>>
    /\ LET item == Head(walk.queue)
           entry == item.entry
           ext == file_ext(walk.config, entry.path)
       IN  IF entry.kind = "error"
           THEN /\ walk' = [pc |-> "return", config |-> walk.config,
                            result |-> Err("walkdir"), base |-> walk.base,
                            seen |-> walk.seen]
                /\ UNCHANGED <<lspVars, document_map, reconciled, issued>>
           ELSE IF entry.kind # "file"
                   \/ ~(IsSome(ext) /\ is_lang(Unwrap(ext), item.lang_type))
           THEN /\ WalkContinue
                /\ UNCHANGED <<lspVars, document_map, reconciled, issued>>
           ELSE \E o \in FileOutcomes :
                  LET r == config_add_file(LS, document_map, walk.diagnostics,
                                           entry.path, item.lang_type,
                                           o.canon_ok, o.content)
                  IN  /\ (r.s.current = current \/ current < MaxFiles)
                      /\ SetLS(r.s)
                      /\ document_map' = r.dm
                      /\ reconciled' =
                             (IF IsSome(r.ret) /\ reconciles(r.s, current, item.lang_type)
                              THEN Put(reconciled, current, Unwrap(o.content))
                              ELSE reconciled)
                      /\ issued' = (IF r.s.current = current THEN issued
                                    ELSE Append(issued, current))
                      /\ IF IsSome(r.ret)
                         THEN walk' = [walk EXCEPT
                                 !.queue = Tail(walk.queue),
                                 !.diagnostics = r.diags,
                                 !.seen = Append(walk.seen,
                                     [uri |-> Uri(entry.path),
                                      file |-> current,
                                      lang_type |-> item.lang_type,
                                      text |-> Unwrap(o.content)])]
                         ELSE walk' = [pc |-> "return", config |-> walk.config,
                                       result |-> Err("Template path"),
                                       base |-> walk.base, seen |-> walk.seen,
                                       failed |-> [path |-> entry.path, outcome |-> o,
                                                   left |-> Tail(walk.queue)]]
    /\ UNCHANGED <<last, concVars>>

\* Ok(diagnostics) at the end of the loops; the guard is dropped on return
WalkReturn ==
    /\ \/ walk.pc = "return"
       \/ walk.pc = "loop" /\ walk.queue = <<>>
    /\ lock' = "free"
    /\ LET result == IF walk.pc = "return" THEN walk.result
                     ELSE <<"Ok", walk.diagnostics>>
       IN  last' = <<[op |-> "walkdir", arg |-> walk.config, ret |-> result,
                      changed |-> TRUE, base |-> walk.base, seen |-> walk.seen,
                      failed |-> IF walk.pc = "return" /\ "failed" \in DOMAIN walk
                                 THEN Some(walk.failed) ELSE None]>>
    /\ walk' = IdleWalk
    /\ UNCHANGED <<lspVars, document_map, reconciled, issued, hpc, hcall>>

---------------------------------------------------------------------------
(* Edits of one file, one whole call at a time *)

\* BackendHtmx::on_change, which did_open and did_change run: the text is
\* stored in document_map and nothing else is done; the map is a DashMap
\* of the server, no lock on LspFiles is taken
DidChange(uri, text) ==
    /\ document_map' = Put(document_map, uri, text)
    /\ UNCHANGED <<lspVars, reconciled, last, issued, walk, concVars>>

\* a call of LspFiles::on_change by the holder of the lock
OnChange(uri, text) ==
    /\ lock_free
    /\ LET s == on_change(LS, uri, text)
       IN  /\ SetLS(s)
           /\ Log(Call("on_change", <<uri, text>>, None, s), 1)
    /\ UNCHANGED <<document_map, reconciled, issued, walk, concVars>>

\* a call of LspFiles::add_tree; lang_type is the Option the caller passes.
\* again says that the call repeats an add_tree, add_tags_from_file pair
\* made just before with the same file, classification and text.
AddTree(index, lang_type, text) ==
    /\ lock_free
    /\ LET s == add_tree(LS, index, lang_type, text)
       IN  /\ SetLS(s)
           /\ last' = <<[op |-> "add_tree", arg |-> <<index, lang_type, text>>,
                         ret |-> None, changed |-> (s # LS),
                         again |-> (/\ IsCall(1, "add_tags_from_file")
                                    /\ last[1].paired
                                    /\ lang_type = Some(last[1].arg[2])
                                    /\ last[1].arg[1] = index
                                    /\ last[1].arg[3] = text)]>>
    /\ UNCHANGED <<document_map, reconciled, issued, walk, concVars>>

\* a call of LspFiles::add_tags_from_file with a fresh diagnostics vector,
\* which is what the log keeps as ret.  paired says that the call follows
\* an add_tree with the same file, classification and text, again that
\* this pair repeats the pair before it, tree_changed what that add_tree
\* did to the tree cache.
AddTagsFromFile(index, lang_type, text) ==
    /\ lock_free
    /\ LET r == add_tags_from_file(LS, index, lang_type, text, <<>>)
           paired == /\ IsCall(1, "add_tree")
                     /\ last[1].arg = <<index, Some(lang_type), text>>
       IN  /\ SetLS(r.s)
           /\ last' = <<[op |-> "add_tags_from_file",
                         arg |-> <<index, lang_type, text>>, ret |-> r.diags,
                         changed |-> (r.s # LS), paired |-> paired,
                         again |-> (paired /\ last[1].again),
                         tree_changed |-> (paired /\ last[1].changed)]>>
           /\ reconciled' = (IF reconciles(r.s, index, lang_type)
                             THEN Put(reconciled, index, text)
                             ELSE reconciled)
    /\ UNCHANGED <<document_map, issued, walk, concVars>>

Next ==
    \/ \E config \in Configs : WalkLock(config)
    \/ WalkReset
    \/ WalkEntry
    \/ WalkReturn
    \/ \E uri \in Uris : \E text \in Texts : DidChange(uri, text)
    \/ \E uri \in Uris : \E text \in Texts : OnChange(uri, text)

Spec == Init /\ [][Next]_vars

\* one project: a template root and a backend root
ReparseConfigs == {HtmxConfig("rust", "html", <<"tpl">>, <<>>, <<"src">>)}

\* the files the calls are made on: a backend file and a template
ReparseUris == {Uri("src/a.rs"), Uri("tpl/t.html")}

\* the calls that parse and tag a file again, on the files of a walk
NextReparse ==
    \/ \E config \in ReparseConfigs : WalkLock(config)
    \/ WalkReset
    \/ WalkEntry
    \/ WalkReturn
    \/ \E uri \in ReparseUris : \E text \in Texts : OnChange(uri, text)
    \/ \E uri \in ReparseUris : \E lang_type \in LangTypes : \E text \in Texts :
           uri \in DOMAIN indexes /\ AddTree(indexes[uri], Some(lang_type), text)
    \/ \E uri \in ReparseUris : \E lang_type \in LangTypes : \E text \in Texts :
           uri \in DOMAIN indexes /\ AddTagsFromFile(indexes[uri], lang_type, text)

SpecReparse == Init /\ [][NextReparse]_vars

---------------------------------------------------------------------------
(* Claims about edits, repeated parsing and tagging, and the project walk *)

\* the newest call in the log is op and no walk has started since
Just(op) == walk.pc = "idle" /\ IsCall(1, op)

\* the tags the extractor finds in text, as file index would own them
FoundTags(text, index) == {set_file(t, index) : t \in SeqRange(query_tag_from(text, 0))}

EditedFile == indexes[last[1].arg[1]]

EditOfBackendFile ==
    /\ Just("on_change")
    /\ last[1].arg[1] \in DOMAIN indexes
    /\ EditedFile \in DOMAIN trees
    /\ trees[EditedFile][2] = "Backend"

\* C6 as claimed: after on_change on a registered Backend file the tags the
\* file owns are those of the new text, and every tag of the new text is in
\* the registry (owned by the file, or by the file that won the conflict).
C6_EditRetags ==
    EditOfBackendFile
    => /\ \A n \in DOMAIN tags :
              tags[n].file = EditedFile => tags[n] \in FoundTags(last[1].arg[2], EditedFile)
       /\ \A t \in FoundTags(last[1].arg[2], EditedFile) : t.name \in DOMAIN tags

\* what LspFiles::on_change does instead: on a registered file that has a
\* tree entry it replaces the entry by the parse of the new text under the
\* entry's own classification and does nothing else: the tag registry, the index and
\* the counter are not touched and nothing is returned; without a tree
\* entry, or on an unregistered URI, no field of LspFiles changes.
C6_EditReparsesOnly ==
    [][\A uri \in Uris : \A text \in Texts :
         OnChange(uri, text)
         => /\ tags' = tags /\ indexes' = indexes /\ current' = current
            /\ last'[1].ret = None
            /\ IF uri \in DOMAIN indexes /\ indexes[uri] \in DOMAIN trees
               THEN LET f == indexes[uri]
                    IN  /\ DOMAIN trees' = DOMAIN trees
                        /\ trees'[f] = <<[grammar |-> trees[f][2], src |-> text], trees[f][2]>>
                        /\ \A g \in DOMAIN trees : g # f => trees'[g] = trees[g]
               ELSE trees' = trees]_vars

\* an edit of a Backend file has replaced its tree and left in the registry
\* a tag set that is not the one of the new text
C6_Witness ==
    /\ EditOfBackendFile
    /\ last[1].changed
    /\ trees[EditedFile][1].src = last[1].arg[2]
    /\ \E t \in FoundTags(last[1].arg[2], EditedFile) : t.name \notin DOMAIN tags
    /\ \E n \in DOMAIN tags : tags[n].file = EditedFile

\* C7: add_tree followed by add_tags_from_file, run a second time on the
\* same file with the same text, changes neither the tree cache nor the tag
\* registry, and every conflict the second run reports is with a tag of
\* another file or with an earlier line of the same text, never with a tag
\* the file owned from the run before.
C7_ReindexIdempotent ==
    (Just("add_tags_from_file") /\ last[1].again)
    => /\ ~last[1].changed
       /\ ~last[1].tree_changed
       /\ \A d \in SeqRange(last[1].ret) :
              /\ d.name \in DOMAIN tags
              /\ \/ tags[d.name].file # d.file
                 \/ tags[d.name].line < d.line

C7_Witness ==
    /\ Just("add_tags_from_file") /\ last[1].again
    /\ last[1].ret # <<>>
    /\ \E n \in DOMAIN tags : tags[n].file = last[1].arg[1]
    /\ \E n \in DOMAIN tags : tags[n].file # last[1].arg[1]

WalkOk == Just("walkdir") /\ last[1].ret[1] = "Ok"

\* the entries of the walk whose file extension matches their directory list
Matching(config) ==
    {item \in SeqRange(walk_queue(config)) :
        /\ item.entry.kind = "file"
        /\ IsSome(file_ext(config, item.entry.path))
        /\ item.lang_type \in Unwrap(file_ext(config, item.entry.path))}

\* C8: after a walk that returned Ok, the index holds exactly the matching
\* files of the configured roots, each under a FileId issued in this walk and
\* with a tree of the text read; every tag in the registry was extracted from
\* one of these files; and every extracted tag is either the registered one
\* or in the returned list, which holds nothing else.
C8_ScanResetsAndIndexes ==
    WalkOk
    => LET seen == SeqRange(last[1].seen)
           diags == last[1].ret[2]
           tagged == {f \in seen : f.lang_type # "Template"}
       IN  /\ DOMAIN indexes = {f.uri : f \in seen}
           /\ \A f \in seen : indexes[f.uri] = f.file /\ f.file >= last[1].base
           /\ \A item \in Matching(last[1].arg) :
                  \E f \in seen : f.uri = Uri(item.entry.path) /\ f.lang_type = item.lang_type
           /\ DOMAIN trees = {f.file : f \in seen}
           /\ \A f \in seen :
                  trees[f.file] = <<[grammar |-> f.lang_type, src |-> f.text], f.lang_type>>
           /\ \A n \in DOMAIN tags :
                  \E f \in tagged : tags[n] \in FoundTags(f.text, f.file)
           /\ \A f \in tagged : \A t \in FoundTags(f.text, f.file) :
                  tags[t.name] = t \/ t \in SeqRange(diags)
           /\ \A i \in 1..Len(diags) :
                  /\ \E f \in tagged : diags[i] \in FoundTags(f.text, f.file)
                  /\ tags[diags[i].name] # diags[i]

\* a second walk has returned Ok with conflicts, after a first one had
\* issued FileIds
C8_Witness ==
    /\ WalkOk
    /\ last[1].base > 0
    /\ Len(last[1].seen) >= 2
    /\ last[1].ret[2] # <<>>
    /\ DOMAIN tags # {}

\* C10 as claimed: the walk never returns an error because one file could
\* not be canonicalized or read.
C10_SkipsUnreadable ==
    ~(/\ Just("walkdir")
      /\ last[1].ret[1] = "Err"
      /\ IsSome(last[1].failed)
      /\ \/ ~Unwrap(last[1].failed).outcome.canon_ok
         \/ ~IsSome(Unwrap(last[1].failed).outcome.content))

---------------------------------------------------------------------------
(* Concurrent request handlers.  LspFiles holds a RefCell and is shared as *)
(* Arc<Mutex<LspFiles>>: a handler locks the mutex, runs one call step by  *)
(* step and drops the guard.                                               *)

HandlerCalls ==
    {[op |-> "add_file", arg |-> Uri("src/a.rs")]}
    \cup {[op |-> "add_tag", arg |-> Tag(<<"b">>, 3, 6, f, 0)] : f \in {0, 1}}
    \cup {[op |-> "on_change", arg |-> <<Uri("src/a.rs"), text>>] : text \in Texts}

ConcConfigs ==
    { HtmxConfig("rust", "html", <<>>, <<"src">>, <<"src">>),
      HtmxConfig("rust", "html", <<"tpl">>, <<>>, <<>>) }

\* a request arrives: the handler is about to lock LspFiles.  absent says
\* whether the key of the call was missing from its map at that moment.
HCall(h, c) ==
    /\ hpc[h] = "idle"
    /\ hpc' = [hpc EXCEPT ![h] = "wait"]
    /\ hcall' = [hcall EXCEPT ![h] =
                   [op |-> c.op, arg |-> c.arg,
                    absent |-> CASE c.op = "add_file" -> c.arg \notin DOMAIN indexes
                                 [] c.op = "add_tag" -> c.arg.name \notin DOMAIN tags
                                 [] OTHER -> FALSE]]
    /\ UNCHANGED <<lspVars, document_map, reconciled, last, issued, walk, lock>>

\* lsp_files.lock(); snap is the state of LspFiles the call starts from
HLock(h) ==
    /\ hpc[h] = "wait"
    /\ lock_free
    /\ lock' = h
    /\ hpc' = [hpc EXCEPT ![h] = hcall[h].op]
    /\ hcall' = [hcall EXCEPT ![h] =
                   [op |-> hcall[h].op, arg |-> hcall[h].arg,
                    absent |-> hcall[h].absent, snap |-> LS]]
    /\ UNCHANGED <<lspVars, document_map, reconciled, last, issued, walk>>

HDone(h, ret) ==
    /\ hpc' = [hpc EXCEPT ![h] = "done"]
    /\ hcall' = [hcall EXCEPT ![h] =
                   [op |-> hcall[h].op, arg |-> hcall[h].arg,
                    absent |-> hcall[h].absent, snap |-> hcall[h].snap,
                    ret |-> ret]]

\* add_file: if self.get_index(&key).is_none()
HAddFileCheck(h) ==
    /\ hpc[h] = "add_file"
    /\ IF ~IsSome(get_index(LS, hcall[h].arg))
       THEN /\ current < MaxFiles
            /\ hpc' = [hpc EXCEPT ![h] = "add_file_bump"]
            /\ UNCHANGED hcall
       ELSE HDone(h, None)
    /\ UNCHANGED <<lspVars, document_map, reconciled, last, issued, walk, lock>>

\* add_file: let old = self.current.replace_with(|&mut old| old + 1);
HAddFileBump(h) ==
    /\ hpc[h] = "add_file_bump"
    /\ current' = current + 1
    /\ issued' = Append(issued, current)
    /\ hpc' = [hpc EXCEPT ![h] = "add_file_insert"]
    /\ hcall' = [hcall EXCEPT ![h] =
                   [op |-> hcall[h].op, arg |-> hcall[h].arg,
                    absent |-> hcall[h].absent, snap |-> hcall[h].snap,
                    old |-> current]]
    /\ UNCHANGED <<indexes, trees, tags, document_map, reconciled, last, walk, lock>>

\* add_file: self.indexes.insert(key, old); return Some(old);
HAddFileInsert(h) ==
    /\ hpc[h] = "add_file_insert"
    /\ indexes' = Put(indexes, hcall[h].arg, hcall[h].old)
    /\ HDone(h, Some(hcall[h].old))
    /\ UNCHANGED <<current, trees, tags, document_map, reconciled, last, issued, walk, lock>>

\* add_tag: if self.tags.contains_key(&tag.name) { Err(tag) }
HAddTagCheck(h) ==
    /\ hpc[h] = "add_tag"
    /\ IF hcall[h].arg.name \in DOMAIN tags
       THEN HDone(h, Err(hcall[h].arg))
       ELSE /\ hpc' = [hpc EXCEPT ![h] = "add_tag_insert"]
            /\ UNCHANGED hcall
    /\ UNCHANGED <<lspVars, document_map, reconciled, last, issued, walk, lock>>

\* add_tag: self.tags.insert(String::from(&tag.name), tag); Ok(())
HAddTagInsert(h) ==
    /\ hpc[h] = "add_tag_insert"
    /\ tags' = Put(tags, hcall[h].arg.name, hcall[h].arg)
    /\ HDone(h, Ok)
    /\ UNCHANGED <<current, indexes, trees, document_map, reconciled, last, issued, walk, lock>>

\* on_change: let file = self.get_index(&params.uri.to_string())?;
HEditIndex(h) ==
    /\ hpc[h] = "on_change"
    /\ IF IsSome(get_index(LS, hcall[h].arg[1]))
       THEN /\ hpc' = [hpc EXCEPT ![h] = "on_change_tree"]
            /\ UNCHANGED hcall
       ELSE HDone(h, None)
    /\ UNCHANGED <<lspVars, document_map, reconciled, last, issued, walk, lock>>

\* on_change: self.add_tree(file, None, &params.text, None);
HEditTree(h) ==
    /\ hpc[h] = "on_change_tree"
    /\ SetLS(on_change(LS, hcall[h].arg[1], hcall[h].arg[2]))
    /\ HDone(h, None)
    /\ UNCHANGED <<document_map, reconciled, last, issued, walk, lock>>

\* the guard is dropped and the handler answers
HUnlock(h) ==
    /\ hpc[h] = "done"
    /\ lock' = "free"
    /\ hpc' = [hpc EXCEPT ![h] = "idle"]
    /\ hcall' = [hcall EXCEPT ![h] = <<>>]
    /\ UNCHANGED <<lspVars, document_map, reconciled, last, issued, walk>>

NextConc ==
    \/ \E h \in Handlers : \E c \in HandlerCalls : HCall(h, c)
    \/ \E h \in Handlers : HLock(h)
    \/ \E h \in Handlers : HAddFileCheck(h)
    \/ \E h \in Handlers : HAddFileBump(h)
    \/ \E h \in Handlers : HAddFileInsert(h)
    \/ \E h \in Handlers : HAddTagCheck(h)
    \/ \E h \in Handlers : HAddTagInsert(h)
    \/ \E h \in Handlers : HEditIndex(h)
    \/ \E h \in Handlers : HEditTree(h)
    \/ \E h \in Handlers : HUnlock(h)
    \/ \E config \in ConcConfigs : WalkLock(config)
    \/ WalkReset
    \/ WalkEntry
    \/ WalkReturn

SpecConc == Init /\ [][NextConc]_vars

---------------------------------------------------------------------------
(* Claims about concurrent handlers *)

Holding(h) == hpc[h] \notin {"idle", "wait"}

\* what the call of handler h yields when it runs in one piece on state s
Atomic(h, s) ==
    IF hcall[h].op = "add_file" THEN add_file(s, hcall[h].arg)
    ELSE add_tag(s, hcall[h].arg)

\* C5: under concurrent handlers add_file and add_tag are atomic
\* check-and-set: when a handler has finished the steps of its call, LspFiles
\* is exactly what the whole call makes of the state the call started from
\* and the handler holds exactly the value the whole call returns, so a
\* second registration of a URI gets none and a second insert of a name gets
\* its own tag back; and no two URIs ever share a FileId.
C5_AtomicCheckAndSet ==
    /\ \A h \in Handlers :
           (hpc[h] = "done" /\ hcall[h].op \in {"add_file", "add_tag"})
           => /\ LS = Atomic(h, hcall[h].snap).s
              /\ hcall[h].ret = Atomic(h, hcall[h].snap).ret
    /\ \A u1 \in DOMAIN indexes : \A u2 \in DOMAIN indexes :
           indexes[u1] = indexes[u2] => u1 = u2

\* two handlers asked to register the same unregistered URI, no walk ran:
\* the second one to get the lock is answered none, the counter moved once
C5_Witness ==
    /\ last = <<>>
    /\ \E h \in Handlers :
           /\ hpc[h] = "done"
           /\ hcall[h].op = "add_file"
           /\ hcall[h].absent
           /\ hcall[h].ret = None
    /\ current = 1
    /\ <<"b">> \in DOMAIN tags

\* C9: the walk holds the LspFiles lock from before its reset until it
\* returns: while the walk is anywhere between taking the lock and
\* returning, the lock is the walk's and no handler is inside a call; a
\* handler inside a call holds the lock itself.
C9_WalkExcludesEdits ==
    /\ walk.pc # "idle" => lock = "walk"
    /\ \A h \in Handlers : Holding(h) => (walk.pc = "idle" /\ lock = h)

\* an edit is waiting for the lock while a second walk has reset the index
\* and has not yet put anything back
C9_Witness ==
    /\ walk.pc = "loop"
    /\ walk.base > 0
    /\ indexes = EmptyMap
    /\ \E h \in Handlers : hpc[h] = "wait" /\ hcall[h].op = "on_change"

---------------------------------------------------------------------------
(* Configuration loads (read_config of config.rs)                          *)

\* the checks of read_config before the walk: the message of the error it
\* returns, None when the configuration passes
config_error(config) ==
    IF config.template_ext = <<>> \/ str_contains(config.template_ext, Space)
    THEN Some(<<"Template extension not found.">>)
    ELSE IF config.lang \notin {"python", "rust", "go"}
         THEN Some(<<"Language ", config.lang, " is not supported.">>)
         ELSE None

\* template_ext as a string of characters, the other fields as in Configs
LoadConfig(lang, template_ext, templates, backend_tags) ==
    [lang |-> lang, template_ext |-> template_ext, templates |-> templates,
     js_tags |-> <<>>, backend_tags |-> backend_tags]

ExtHtml == <<"h", "t", "m", "l">>

LoadConfigs ==
    { LoadConfig("rust", ExtHtml, <<"tpl">>, <<"src">>),
      LoadConfig("rust", ExtHtml, <<>>, <<"src", "gone">>),
      LoadConfig("rust", <<>>, <<"tpl">>, <<"src">>),
      LoadConfig("rust", <<"h", " ", "t">>, <<"tpl">>, <<"src">>),
      LoadConfig("java", ExtHtml, <<"tpl">>, <<"src">>) }

\* the configuration as the walk compares it with Path::extension
WalkConfig(config) ==
    HtmxConfig(config.lang,
               IF config.template_ext = ExtHtml THEN "html" ELSE "",
               config.templates, config.js_tags, config.backend_tags)

\* read_config: an early Err for a configuration that fails the checks,
\* otherwise walkdir, whose result is the result of read_config
ReadConfig(config) ==
    /\ walk.pc = "idle"
    /\ IF IsSome(config_error(config))
       THEN /\ lock_free
            /\ last' = <<[op |-> "read_config", arg |-> config,
                          ret |-> Err(Unwrap(config_error(config))),
                          changed |-> FALSE, walked |-> FALSE]>>
            /\ UNCHANGED <<lspVars, document_map, reconciled, issued, walk, concVars>>
       ELSE WalkLock(WalkConfig(config))

NextConfig ==
    \/ \E config \in LoadConfigs : ReadConfig(config)
    \/ WalkReset
    \/ WalkEntry
    \/ WalkReturn

SpecConfig == Init /\ [][NextConfig]_vars

\* C11: whenever the most recent read_config ended in a configuration error
\* (template_ext empty or with whitespace, lang not python, rust or go), the
\* walk was not run and the tag registry is empty afterwards.
C11_ConfigErrorEmptyRegistry ==
    (Just("read_config") /\ IsErr(last[1].ret))
    => /\ ~last[1].walked
       /\ tags = EmptyMap

---------------------------------------------------------------------------
(* Saves: LspFiles::saved on the text held in document_map                 *)

\* file_ext(path, config), the free function saved calls: the classification
\* of the path, one of the two when the backend and template extensions
\* coincide
file_ext_lang(path, config) ==
    LET ext == file_ext(config, path)
    IN  IF ~IsSome(ext) THEN {None} ELSE {Some(l) : l \in Unwrap(ext)}

SaveConfigs ==
    { HtmxConfig("rust", "html", <<"tpl">>, <<>>, <<"src">>),
      HtmxConfig("rust", "rs", <<"src">>, <<>>, <<>>) }

\* a call of LspFiles::saved with a fresh diagnostics vector and the
\* server's document_map; lang is kept in the log
Saved(uri, config) ==
    /\ lock_free
    /\ \E lang \in file_ext_lang(uri[2], config) :
          LET r == saved(LS, uri, <<>>, lang, document_map)
          IN  /\ SetLS(r.s)
              /\ last' = <<[op |-> "saved", arg |-> <<uri, config>>, ret |-> r.ret,
                            changed |-> (r.s # LS), lang |-> lang]>>
              /\ reconciled' =
                     (IF r.ret # None /\ reconciles(r.s, indexes[uri], Unwrap(lang))
                      THEN Put(reconciled, indexes[uri], document_map[uri])
                      ELSE reconciled)
    /\ UNCHANGED <<document_map, issued, walk, concVars>>

NextSave ==
    \/ \E config \in SaveConfigs : WalkLock(config)
    \/ WalkReset
    \/ WalkEntry
    \/ WalkReturn
    \/ \E uri \in Uris : \E text \in Texts : DidChange(uri, text)
    \/ \E uri \in Uris : \E text \in Texts : OnChange(uri, text)
    \/ \E uri \in Uris : \E config \in SaveConfigs : Saved(uri, config)

SpecSave == Init /\ [][NextSave]_vars

\* the file of the save that has just returned has a tree classified Template
SavedTemplate ==
    /\ Just("saved")
    /\ last[1].arg[1] \in DOMAIN indexes
    /\ indexes[last[1].arg[1]] \in DOMAIN trees
    /\ trees[indexes[last[1].arg[1]]][2] = "Template"

\* C12: Template-classified files never produce tags: at every moment of
\* any sequence of scans, edits and saves no tag of the registry is owned by
\* a FileId whose tree is classified Template; and saved on a file whose
\* tree is classified Template changes no field and returns no diagnostic
\* (nothing at all when the path is classified Template).
C12_TemplatesNeverTagged ==
    /\ \A n \in DOMAIN tags :
           tags[n].file \in DOMAIN trees => trees[tags[n].file][2] # "Template"
    /\ SavedTemplate
       => /\ ~last[1].changed
          /\ last[1].ret \in {None, Some(<<>>)}
          /\ last[1].lang = Some("Template") => last[1].ret = None

\* a template has been saved while the registry holds the tags of the
\* backend files
C12_Witness ==
    /\ SavedTemplate
    /\ last[1].lang = Some("Template")
    /\ last[1].ret = None
    /\ Cardinality(DOMAIN tags) >= 2

---------------------------------------------------------------------------
(* Claims about the tree cache *)

\* C13: the classification of a tree entry is sticky.  In every step, an
\* entry that is still there keeps its classification and is parsed with
\* it; entries disappear only all together, by the reset of a walk; a
\* call that passes any classification to add_tree for a FileId with an
\* entry leaves the entry as the parse of the new text under the old
\* classification; and an edit (add_tree with no classification) of a
\* registered file without an entry changes nothing.
C13_StickyClassification ==
    [][/\ \A f \in DOMAIN trees :
              f \in DOMAIN trees'
              => /\ trees'[f][2] = trees[f][2]
                 /\ trees'[f][1].grammar = trees[f][2]
       /\ (DOMAIN trees \ DOMAIN trees' # {})
          => (trees' = EmptyMap /\ walk.pc = "locked")
       /\ \A uri \in Uris : \A lang_type \in LangTypes : \A text \in Texts :
              (/\ uri \in DOMAIN indexes
               /\ AddTree(indexes[uri], Some(lang_type), text)
               /\ indexes[uri] \in DOMAIN trees)
              => trees'[indexes[uri]] =
                     <<[grammar |-> trees[indexes[uri]][2], src |-> text],
                       trees[indexes[uri]][2]>>
       /\ \A uri \in Uris : \A text \in Texts :
              (OnChange(uri, text) /\ uri \in DOMAIN indexes
               /\ indexes[uri] \notin DOMAIN trees)
              => UNCHANGED lspVars]_vars

\* add_tree has been called with a classification that is not the one of
\* the tree of the file, which now holds the new text
C13_Witness ==
    /\ Just("add_tree")
    /\ last[1].arg[1] \in DOMAIN trees
    /\ trees[last[1].arg[1]][2] # Unwrap(last[1].arg[2])
    /\ trees[last[1].arg[1]][1].src = last[1].arg[3]
    /\ last[1].changed

---------------------------------------------------------------------------
(* Concurrent edits and reads of one tree entry: add_tree step by step     *)

TreeCalls ==
    {[op |-> "on_change", arg |-> <<Uri("src/a.rs"), text>>] : text \in Texts}
    \cup {[op |-> "get_tree", arg |-> f] : f \in 0..1}

\* the locals of the call a handler is running, with some of them changed
HLocals(h, more) ==
    [k \in (DOMAIN hcall[h]) \cup (DOMAIN more) |->
        IF k \in DOMAIN more THEN more[k] ELSE hcall[h][k]]

\* a reparse that takes the old entry out of the map while it parses
HTreeParse_take(h) ==
    /\ hpc[h] = "on_change_tree"
    /\ LET index == Unwrap(get_index(LS, hcall[h].arg[1]))
       IN  IF index \in DOMAIN trees
           THEN /\ hpc' = [hpc EXCEPT ![h] = "add_tree_insert"]
                /\ hcall' = [hcall EXCEPT ![h] = HLocals(h,
                       [index |-> index, lang |-> trees[index][2],
                        tree |-> parse(trees[index][2], hcall[h].arg[2])])]
                /\ trees' = Remove(trees, {index})
           ELSE /\ HDone(h, None)
                /\ UNCHANGED trees
    /\ UNCHANGED <<current, indexes, tags, document_map, reconciled, last, issued, walk, lock>>

\* add_tree called by on_change: parsers.lock(), self.trees.get_mut(&index)
\* and parsers.parse(old_tree.1, text, ..); without an entry nothing is
\* done, since on_change passes no classification
HTreeParse(h) ==
    /\ hpc[h] = "on_change_tree"
    /\ LET index == Unwrap(get_index(LS, hcall[h].arg[1]))
       IN  IF index \in DOMAIN trees
           THEN /\ hpc' = [hpc EXCEPT ![h] = "add_tree_insert"]
                /\ hcall' = [hcall EXCEPT ![h] = HLocals(h,
                       [index |-> index, lang |-> trees[index][2],
                        tree |-> parse(trees[index][2], hcall[h].arg[2])])]
                /\ UNCHANGED trees
           ELSE /\ HDone(h, None)
                /\ UNCHANGED trees
    /\ UNCHANGED <<current, indexes, tags, document_map, reconciled, last, issued, walk, lock>>

\* add_tree: drop(old_tree); self.trees.insert(index, (tree, lang));
HTreeInsert(h) ==
    /\ hpc[h] = "add_tree_insert"
    /\ IF IsSome(hcall[h].tree)
       THEN trees' = Put(trees, hcall[h].index, <<Unwrap(hcall[h].tree), hcall[h].lang>>)
       ELSE UNCHANGED trees
    /\ HDone(h, None)
    /\ UNCHANGED <<current, indexes, tags, document_map, reconciled, last, issued, walk, lock>>

\* get_tree: self.trees.get(&index)
HGetTree(h) ==
    /\ hpc[h] = "get_tree"
    /\ HDone(h, get_tree(LS, hcall[h].arg))
    /\ UNCHANGED <<lspVars, document_map, reconciled, last, issued, walk, lock>>

NextTree ==
    \/ \E h \in Handlers : \E c \in TreeCalls : HCall(h, c)
    \/ \E h \in Handlers : HLock(h)
    \/ \E h \in Handlers : HEditIndex(h)
    \/ \E h \in Handlers : HTreeParse(h)
    \/ \E h \in Handlers : HTreeInsert(h)
    \/ \E h \in Handlers : HGetTree(h)
    \/ \E h \in Handlers : HUnlock(h)
    \/ \E config \in ConcConfigs : WalkLock(config)
    \/ WalkReset
    \/ WalkEntry
    \/ WalkReturn

SpecTree == Init /\ [][NextTree]_vars

\* an entry of the tree cache that is whole: a tree of one of the texts,
\* parsed with the grammar of the classification stored next to it
Complete(entry) == entry[1].grammar = entry[2] /\ entry[1].src \in Texts

\* C14: tree replacement is an atomic swap.  In every step an entry that
\* exists is still there afterwards unless the reset of a walk has emptied
\* the cache, and every entry is whole; a get_tree that has returned holds
\* exactly the entry the cache had when the call started, whole; and an
\* on_change that has returned leaves the cache as the whole call makes it
\* from the state it started from, so of two overlapping edits of a file the
\* entry left is that of the one that ran last.
C14_AtomicSwap ==
    [][/\ \A f \in DOMAIN trees :
              f \in DOMAIN trees' \/ (trees' = EmptyMap /\ walk.pc = "locked")
       /\ \A f \in DOMAIN trees' : Complete(trees'[f])
       /\ \A h \in Handlers :
              (hpc'[h] = "done" /\ hcall'[h].op = "get_tree")
              => /\ hcall'[h].ret = get_tree(hcall'[h].snap, hcall'[h].arg)
                 /\ hcall'[h].ret # None => Complete(Unwrap(hcall'[h].ret))
       /\ \A h \in Handlers :
              (hpc'[h] = "done" /\ hcall'[h].op = "on_change")
              => LS' = on_change(hcall'[h].snap, hcall'[h].arg[1], hcall'[h].arg[2])]_vars

\* a get_tree has returned the entry an edit left, not the text of the walk,
\* while another edit of the file waits for the lock
C14_Witness ==
    \E h1 \in Handlers : \E h2 \in Handlers :
        /\ hpc[h1] = "done" /\ hcall[h1].op = "get_tree"
        /\ hcall[h1].ret # None
        /\ Uri("src/a.rs") \in DOMAIN document_map
        /\ Unwrap(hcall[h1].ret)[1].src # document_map[Uri("src/a.rs")]
        /\ hpc[h2] = "wait" /\ hcall[h2].op = "on_change"

---------------------------------------------------------------------------
(* Publishing the conflicts (LspFiles::publish_tag_diagnostics)            *)

\* the Diagnostic built for one rejected tag; line, start and end are cast
\* to u32, which changes no value a text of the model has
Diagnostic(diag) ==
    [range |-> <<<<diag.line, diag.start>>, <<diag.line, diag.end>>>>,
     severity |-> Some("WARNING"),
     message |-> "This tag already exist.",
     source |-> Some("htmx-lsp")]

\* a publication that keeps only the newest diagnostic of a URI
RECURSIVE publish_replacing(_, _, _)
publish_replacing(s, diagnostics, hm) ==
    IF diagnostics = <<>> THEN {hm}
    ELSE UNION {IF IsSome(uri)
                THEN publish_replacing(s, Tail(diagnostics),
                         Put(hm, Unwrap(uri), <<Diagnostic(Head(diagnostics))>>))
                ELSE publish_replacing(s, Tail(diagnostics), hm)
                : uri \in get_uri(s, Head(diagnostics).file)}

\* publish_tag_diagnostics: the maps hm may be afterwards (one for every
\* answer get_uri may give)
RECURSIVE publish_tag_diagnostics(_, _, _)
publish_tag_diagnostics(s, diagnostics, hm) ==
    IF diagnostics = <<>> THEN {hm}
    ELSE UNION {IF IsSome(uri)
                THEN LET diagnostic == Diagnostic(Head(diagnostics))
                     IN  IF Unwrap(uri) \in DOMAIN hm
                         THEN publish_tag_diagnostics(s, Tail(diagnostics),
                                  Put(hm, Unwrap(uri), Append(hm[Unwrap(uri)], diagnostic)))
                         ELSE publish_tag_diagnostics(s, Tail(diagnostics),
                                  Put(hm, Unwrap(uri), <<diagnostic>>))
                ELSE publish_tag_diagnostics(s, Tail(diagnostics), hm)
                : uri \in get_uri(s, Head(diagnostics).file)}

\* the conflicts a walk or a save has just returned are published into an
\* empty map; the conflicts just published are published once more into the
\* map they were published to
Publish ==
    /\ lock_free
    /\ walk.pc = "idle"
    /\ last # <<>>
    /\ \E in \in
            (IF last[1].op = "walkdir"
             THEN (IF last[1].ret[1] = "Ok"
                   THEN {[diags |-> last[1].ret[2], hm |-> EmptyMap]} ELSE {})
             ELSE IF last[1].op = "saved"
             THEN (IF IsSome(last[1].ret)
                   THEN {[diags |-> Unwrap(last[1].ret), hm |-> EmptyMap]} ELSE {})
             ELSE IF last[1].op = "publish"
             THEN (IF last[1].hm = EmptyMap
                   THEN {[diags |-> last[1].arg, hm |-> last[1].ret]} ELSE {})
             ELSE {}) :
          \E out \in publish_tag_diagnostics(LS, in.diags, in.hm) :
              last' = <<[op |-> "publish", arg |-> in.diags, hm |-> in.hm,
                         ret |-> out, changed |-> FALSE]>>
    /\ UNCHANGED <<lspVars, document_map, reconciled, issued, walk, concVars>>

NextDiag ==
    \/ \E config \in SaveConfigs : WalkLock(config)
    \/ WalkReset
    \/ WalkEntry
    \/ WalkReturn
    \/ \E uri \in Uris : \E text \in Texts : DidChange(uri, text)
    \/ \E uri \in Uris : \E text \in Texts : OnChange(uri, text)
    \/ \E uri \in Uris : \E config \in SaveConfigs : Saved(uri, config)
    \/ Publish

SpecDiag == Init /\ [][NextDiag]_vars

\* the conflicts of the list owned by the file registered under uri, in the
\* order of the list
OwnedBy(diags, uri) == SelectSeq(diags, LAMBDA d : d.file = indexes[uri])

\* C15: after a publication, the map holds under every registered URI what
\* it held before followed by one WARNING diagnostic for each conflict of
\* the list owned by that URI's file, in the order of the list, each with
\* the range (line, start) to (line, end) of the rejected tag; it holds
\* nothing else; and the place of a rejected tag is never the place of the
\* tag registered under its name.
C15_ConflictsPublished ==
    Just("publish")
    => LET diags == last[1].arg
           before == last[1].hm
           after == last[1].ret
           Old(uri) == IF uri \in DOMAIN before THEN before[uri] ELSE <<>>
       IN  /\ DOMAIN after =
                  (DOMAIN before) \cup {uri \in DOMAIN indexes : OwnedBy(diags, uri) # <<>>}
           /\ \A uri \in DOMAIN after :
                  IF uri \in DOMAIN indexes
                  THEN LET own == OwnedBy(diags, uri)
                       IN  /\ Len(after[uri]) = Len(Old(uri)) + Len(own)
                           /\ SubSeq(after[uri], 1, Len(Old(uri))) = Old(uri)
                           /\ \A i \in 1..Len(own) :
                                  LET d == after[uri][Len(Old(uri)) + i]
                                  IN  /\ d.severity = Some("WARNING")
                                      /\ d.range = <<<<own[i].line, own[i].start>>,
                                                     <<own[i].line, own[i].end>>>>
                  ELSE after[uri] = Old(uri)
           /\ \A i \in 1..Len(diags) :
                  diags[i].name \in DOMAIN tags
                  => <<diags[i].file, diags[i].line, diags[i].start>>
                     # <<tags[diags[i].name].file, tags[diags[i].name].line,
                         tags[diags[i].name].start>>

\* the conflicts of two files have been published a second time: one URI
\* holds four diagnostics, another two
C15_Witness ==
    /\ Just("publish")
    /\ last[1].hm # EmptyMap
    /\ Cardinality(DOMAIN last[1].ret) >= 2
    /\ \E uri \in DOMAIN last[1].ret : Len(last[1].ret[uri]) >= 4
    /\ \E uri \in DOMAIN last[1].ret : Len(last[1].ret[uri]) = 2

---------------------------------------------------------------------------
(* Goto definition: get_tags and in_tags of htmx_tags.rs and               *)
(* LspFiles::goto_definition_response                                      *)

\* usize.  A value below 2^63 is held as itself and a value v from 2^63
\* up as v - 2^64: the same 64 bits read in two's complement.  Addition and
\* subtraction that wrap are then those of the integers, and usize::MAX,
\* which 0 - 1 wraps to, is held as -1.
wrapping_sub(a, b) == a - b

wrapping_add(a, b) == a + b

\* a <= b in the order of usize
usize_le(a, b) == IF (a < 0) = (b < 0) THEN a <= b ELSE a >= 0

\* a + b is past usize::MAX (b a length or a small constant)
add_overflows(a, b) == a < 0 /\ a + b >= 0

\* the loop of get_tags over the parts of the value, as a build without
\* overflow checks computes start + part.len() - 1 and end + 2
RECURSIVE get_tags_loop(_, _, _)
get_tags_loop(parts, start_char, line) ==
    IF parts = <<>> THEN <<>>
    ELSE LET part == Head(parts)
             start == start_char
             end == wrapping_sub(wrapping_add(start, Len(part)), 1)
         IN  <<Tag(part, start, end, 0, line)>>
             \o get_tags_loop(Tail(parts), wrapping_add(end, 2), line)

\* the loop meets an overflow: a build with overflow checks panics there
RECURSIVE get_tags_overflows(_, _)
get_tags_overflows(parts, start_char) ==
    IF parts = <<>> THEN FALSE
    ELSE LET sum == wrapping_add(start_char, Len(Head(parts)))
             end == wrapping_sub(sum, 1)
         IN  \/ add_overflows(start_char, Len(Head(parts)))
             \/ sum = 0
             \/ add_overflows(end, 2)
             \/ get_tags_overflows(Tail(parts), wrapping_add(end, 2))

get_tags(value, start_char, line) ==
    IF str_starts_with(value, Space) \/ str_contains(value, <<" ", " ">>)
    THEN None
    ELSE Some(get_tags_loop(str_split(value, Space), start_char, line))

\* PositionDefinition: the line and the column where the attribute value
\* starts, and the cursor
PositionDefinition(line, start, column) ==
    [line |-> line, start |-> start, point |-> [row |-> line, column |-> column]]

\* an in_tags whose test leaves out the last character of a tag
in_tags_short(value, definition) ==
    LET tags_ == get_tags(value, definition.start, definition.line)
    IN  IF ~IsSome(tags_) THEN None
        ELSE LET hit == {i \in 1..Len(Unwrap(tags_)) :
                            /\ usize_le(Unwrap(tags_)[i].start, definition.point.column)
                            /\ ~usize_le(Unwrap(tags_)[i].end, definition.point.column)}
             IN  IF hit = {} THEN None
                 ELSE Some(Unwrap(tags_)[CHOOSE i \in hit : \A j \in hit : i <= j])

\* in_tags: the first tag of the value whose columns hold the cursor
in_tags(value, definition) ==
    LET tags_ == get_tags(value, definition.start, definition.line)
    IN  IF ~IsSome(tags_) THEN None
        ELSE LET hit == {i \in 1..Len(Unwrap(tags_)) :
                            /\ usize_le(Unwrap(tags_)[i].start, definition.point.column)
                            /\ usize_le(definition.point.column, Unwrap(tags_)[i].end)}
             IN  IF hit = {} THEN None
                 ELSE Some(Unwrap(tags_)[CHOOSE i \in hit : \A j \in hit : i <= j])

Location(uri, line, start, end) ==
    [uri |-> uri, range |-> <<<<line, start>>, <<line, end>>>>]

\* goto_definition_response: what def may hold afterwards (one value for
\* every answer get_uri may give)
goto_definition_response(s, definition, value, def) ==
    IF ~IsSome(definition) THEN {def}
    ELSE LET found == in_tags(value, Unwrap(definition))
         IN  IF ~IsSome(found) THEN {def}
             ELSE LET tag == lsp_get_tag(s, Unwrap(found).name)
                  IN  IF ~IsSome(tag) THEN {def}
                      ELSE {IF IsSome(file)
                            THEN Some(Location(Unwrap(file), Unwrap(tag).line,
                                               Unwrap(tag).start, Unwrap(tag).end))
                            ELSE def
                            : file \in get_uri(s, Unwrap(tag).file)}

GotoValues ==
    { <<"a", " ", "b">>, <<" ", "a">>, <<"a", " ", " ", "b">>, <<"c", " ", "a">> }

\* the column of the line at which the attribute value starts
ValueStart == 1

GotoDefinitions ==
    {None} \cup {Some(PositionDefinition(0, ValueStart, column)) : column \in 0..4}

GotoConfigs == { HtmxConfig("rust", "html", <<"tpl">>, <<>>, <<"src">>) }

\* add_tag called on its own, as a request handler may
InsertTag(tag) ==
    /\ lock_free
    /\ LET r == add_tag(LS, tag)
       IN  /\ SetLS(r.s)
           /\ Log(Call("add_tag", tag, r.ret, r.s), 1)
    /\ UNCHANGED <<document_map, reconciled, issued, walk, concVars>>

\* the goto-definition request, with the response unset before the call
Goto(definition, value) ==
    /\ lock_free
    /\ \E def \in goto_definition_response(LS, definition, value, None) :
           Log(Call("goto_definition_response", <<definition, value>>, def, LS), 1)
    /\ UNCHANGED <<lspVars, document_map, reconciled, issued, walk, concVars>>

NextGoto ==
    \/ \E config \in GotoConfigs : WalkLock(config)
    \/ WalkReset
    \/ WalkEntry
    \/ WalkReturn
    \/ \E tag \in TagInputs : InsertTag(tag)
    \/ \E definition \in GotoDefinitions : \E value \in GotoValues :
           Goto(definition, value)

SpecGoto == Init /\ [][NextGoto]_vars

\* a value the multi-tag scan accepts: no leading space, no double space
WellFormed(value) ==
    /\ ~(Len(value) >= 1 /\ value[1] = " ")
    /\ \A i \in 1..(Len(value) - 1) : ~(value[i] = " " /\ value[i + 1] = " ")

\* the word of the value that holds its character number k (from 0): the
\* longest stretch without a space around that character
WordUnder(value, k) ==
    IF k < 0 \/ k >= Len(value) THEN None
    ELSE IF value[k + 1] = " " THEN None
    ELSE LET lo == CHOOSE i \in 1..(k + 1) :
                       /\ \A j \in i..(k + 1) : value[j] # " "
                       /\ (i = 1 \/ value[i - 1] = " ")
             hi == CHOOSE i \in (k + 1)..Len(value) :
                       /\ \A j \in (k + 1)..i : value[j] # " "
                       /\ (i = Len(value) \/ value[i + 1] = " ")
         IN  Some(SubSeq(value, lo, hi))

\* C16: goto-definition sets the response exactly when the word of the
\* attribute value under the cursor is a name of the registry whose owning
\* file has a URI, and then to that URI with the line, start and end of the
\* registered tag; with no definition, no word under the cursor (or a value
\* the scan rejects), an unregistered name or an owner without URI the
\* response stays unset.
C16_GotoDefinition ==
    Just("goto_definition_response")
    => LET definition == last[1].arg[1]
           value == last[1].arg[2]
           def == last[1].ret
           word == IF IsSome(definition) /\ WellFormed(value)
                   THEN WordUnder(value, Unwrap(definition).point.column
                                         - Unwrap(definition).start)
                   ELSE None
           owners == IF IsSome(word) /\ Unwrap(word) \in DOMAIN tags
                     THEN {u \in DOMAIN indexes : indexes[u] = tags[Unwrap(word)].file}
                     ELSE {}
       IN  IF owners = {} THEN def = None
           ELSE \E u \in owners :
                    def = Some([uri |-> u,
                                range |-> <<<<tags[Unwrap(word)].line,
                                              tags[Unwrap(word)].start>>,
                                            <<tags[Unwrap(word)].line,
                                              tags[Unwrap(word)].end>>>>])

\* the cursor is on the second word of the value, a name a backend file
\* registered on its second line, and the response names that place
C16_Witness ==
    /\ Just("goto_definition_response")
    /\ last[1].arg[2] = <<"a", " ", "b">>
    /\ last[1].ret # None
    /\ Unwrap(last[1].ret).uri = Uri("src/a.rs")
    /\ Unwrap(last[1].ret).range = <<<<1, 3>>, <<1, 6>>>>

---------------------------------------------------------------------------
(* The position resolver (position.rs) on one markup element               *)
(*                                                                         *)
(* The text is one line, <div a1 a2 .. ></div>, the attributes separated   *)
(* by one space.  An attribute is a name alone (bare), name="" (empty),    *)
(* name="value" (quoted) or, as the last one only, name= with no quote     *)
(* (eq), which the markup parser turns into the attribute of the name      *)
(* followed by an ERROR node holding the "=".  A single name=" whose quote *)
(* is never closed (open) makes the whole text one ERROR node that holds   *)
(* the tag name, the attribute name and the rest.                          *)

Quote == "\""

Attr(name, form, value) == [name |-> name, form |-> form, value |-> value]

AttrText(a) ==
    CASE a.form = "bare" -> a.name
      [] a.form = "eq" -> a.name \o <<"=">>
      [] a.form = "open" -> a.name \o <<"=", Quote>>
      [] a.form = "empty" -> a.name \o <<"=", Quote, Quote>>
      [] OTHER -> a.name \o <<"=", Quote>> \o a.value \o <<Quote>>

RECURSIVE AttrsText(_)
AttrsText(attrs) ==
    IF attrs = <<>> THEN <<>>
    ELSE <<" ">> \o AttrText(Head(attrs)) \o AttrsText(Tail(attrs))

StartTagText(attrs) == <<"<", "d", "i", "v">> \o AttrsText(attrs) \o <<" ", ">">>

\* the source text of the element
Source(attrs) == StartTagText(attrs) \o <<"<", "/", "d", "i", "v", ">">>

\* the column at which attribute i starts
AttrStart(attrs, i) == 4 + Len(AttrsText(SubSeq(attrs, 1, i - 1))) + 1

\* tree_sitter::Point, and the order on points
Point(row, column) == <<row, column>>
PointLt(p, q) == p[1] < q[1] \/ (p[1] = q[1] /\ p[2] < q[2])
PointLe(p, q) == p = q \/ PointLt(p, q)

\* a node of the tree: its kind and the columns it spans on the line
Node(kind, from, to) == [kind |-> kind, start |-> Point(0, from), end |-> Point(0, to)]

\* Node::utf8_text
utf8_text(node, source) == SubSeq(source, node.start[2] + 1, node.end[2])

\* the nodes the markup parser makes of attribute i
NameNode(attrs, i) ==
    Node("attribute_name", AttrStart(attrs, i), AttrStart(attrs, i) + Len(attrs[i].name))

AttributeNode(attrs, i) ==
    Node("attribute", AttrStart(attrs, i),
         IF attrs[i].form \in {"bare", "eq"}
         THEN AttrStart(attrs, i) + Len(attrs[i].name)
         ELSE AttrStart(attrs, i) + Len(AttrText(attrs[i])))

QuotedNode(attrs, i) ==
    Node("quoted_attribute_value", AttrStart(attrs, i) + Len(attrs[i].name) + 1,
         AttrStart(attrs, i) + Len(AttrText(attrs[i])))

ValueNode(attrs, i) ==
    Node("attribute_value", AttrStart(attrs, i) + Len(attrs[i].name) + 2,
         AttrStart(attrs, i) + Len(AttrText(attrs[i])) - 1)

ErrorNode(attrs, i) ==
    Node("ERROR", AttrStart(attrs, i) + Len(attrs[i].name),
         AttrStart(attrs, i) + Len(attrs[i].name) + 1)

StartTagNode(attrs) == Node("start_tag", 0, Len(StartTagText(attrs)))

\* the ERROR node a quote never closed makes of the text
OpenErrorNode(attrs) == Node("ERROR", 0, Len(Source(attrs)))

\* one capture of a match: the capture's name and the node it holds
Capture(name, node) == [name |-> name, node |-> node]

\* the text of the nodes a match holds under a capture name
CaptureTexts(m, name, source) ==
    {utf8_text(m[k].node, source) : k \in {j \in 1..Len(m) : m[j].name = name}}

\* the regular expression hx-.* of #match?, searched anywhere in the text
regex_is_match(text) ==
    \E k \in 1..Len(text) : k + 2 <= Len(text) /\ SubSeq(text, k, k + 2) = <<"h", "x", "-">>

\* the text predicates of a pattern; one that names a capture the match does
\* not hold is satisfied
satisfies_text_predicates(m, source) ==
    /\ \A t \in CaptureTexts(m, "attr_name", source) : regex_is_match(t)
    /\ \A t \in CaptureTexts(m, "attr_name", source) :
           \A u \in CaptureTexts(m, "complete_match", source) : t = u
    /\ \A t \in CaptureTexts(m, "quoted_attr_value", source) : t = <<Quote, Quote>>

\* the matches of HX_NAME under the element, before the text predicates, in
\* the order the cursor completes them
RECURSIVE NameCandidates(_, _)
NameCandidates(attrs, i) ==
    IF i > Len(attrs) \/ attrs[i].form = "open" THEN <<>>
    ELSE << <<Capture("complete_match", AttributeNode(attrs, i)),
              Capture("attr_name", NameNode(attrs, i))>> >>
         \o (IF attrs[i].form = "eq"
             THEN << <<Capture("unfinished_tag", StartTagNode(attrs))>>,
                     <<Capture("unfinished_tag", StartTagNode(attrs)),
                       Capture("equal_error", ErrorNode(attrs, i))>> >>
             ELSE << <<Capture("unfinished_tag", StartTagNode(attrs))>> >>)
         \o NameCandidates(attrs, i + 1)

HX_NAME(attrs) ==
    SelectSeq(NameCandidates(attrs, 1),
              LAMBDA m : satisfies_text_predicates(m, Source(attrs)))

\* the matches of HX_VALUE under the element, before the text predicates
RECURSIVE ValueCandidates(_, _)
ValueCandidates(attrs, i) ==
    IF i > Len(attrs) THEN <<>>
    ELSE (IF attrs[i].form \in {"empty", "quoted"}
          THEN << <<Capture("empty_attribute", AttributeNode(attrs, i)),
                    Capture("attr_name", NameNode(attrs, i)),
                    Capture("quoted_attr_value", QuotedNode(attrs, i))>> >>
          ELSE <<>>)
         \o (IF attrs[i].form = "open"
             THEN << <<Capture("open_quote_error", OpenErrorNode(attrs)),
                       Capture("attr_name", NameNode(attrs, i))>> >>
             ELSE <<>>)
         \o (IF attrs[i].form = "quoted"
             THEN << <<Capture("non_empty_attribute", AttributeNode(attrs, i)),
                       Capture("attr_name", NameNode(attrs, i)),
                       Capture("attr_value", ValueNode(attrs, i))>> >>
             ELSE <<>>)
         \o ValueCandidates(attrs, i + 1)

\* the second alternative of HX_VALUE: an attribute with a value, and the
\* ERROR node after it
ErrorCandidates(attrs) ==
    IF Len(attrs) = 2 /\ attrs[2].form = "eq" /\ attrs[1].form \in {"empty", "quoted"}
    THEN << <<Capture("last_item", AttributeNode(attrs, 1)),
              Capture("attr_name", NameNode(attrs, 1)),
              Capture("error_char", ErrorNode(attrs, 2))>> >>
    ELSE <<>>

HX_VALUE(attrs) ==
    SelectSeq(ValueCandidates(attrs, 1) \o ErrorCandidates(attrs),
              LAMBDA m : satisfies_text_predicates(m, Source(attrs)))

CaptureDetails(node, source) ==
    [value |-> utf8_text(node, source), end_position |-> node.end]

\* the captures of the matches, one after the other
RECURSIVE Flatten(_)
Flatten(matches) ==
    IF matches = <<>> THEN <<>> ELSE Head(matches) \o Flatten(Tail(matches))

\* query_props: the captures that start at or before the trigger point,
\* folded into a map from capture name to Option of CaptureDetails, a later
\* capture replacing an earlier one of the same name
RECURSIVE fold_captures(_, _, _)
fold_captures(acc, captures, source) ==
    IF captures = <<>> THEN acc
    ELSE fold_captures([acc EXCEPT ![Head(captures).name] =
                            Some(CaptureDetails(Head(captures).node, source))],
                       Tail(captures), source)

CaptureNames ==
    {"attr_name", "complete_match", "unfinished_tag", "equal_error",
     "open_quote_error", "last_item", "error_char", "quoted_attr_value",
     "empty_attribute", "attr_value", "non_empty_attribute"}

query_props(matches, source, trigger_point) ==
    fold_captures([n \in CaptureNames |-> None],
                  SelectSeq(Flatten(matches),
                            LAMBDA c : PointLe(c.node.start, trigger_point)),
                  source)

AttributeName(name) == <<"AttributeName", name>>
AttributeValue(name, value) == <<"AttributeValue", name, value>>

\* the name a completion past the tag asks for
Fresh == <<"-", "-">>

\* the outcome of a call that panics: unwrap of a capture that is not there
Panicked == <<<<"panic">>>>

query_name_past_error(attrs, trigger_point, query_type) ==
    LET props == query_props(HX_NAME(attrs), Source(attrs), trigger_point)
    IN  IF props["attr_name"] = None THEN None
        ELSE LET attr_name == props["attr_name"][1]
             IN  IF props["unfinished_tag"] # None
                    /\ query_type = "Hover"
                 THEN IF props["complete_match"] # None
                         /\ PointLe(trigger_point, attr_name.end_position)
                      THEN Some(AttributeName(attr_name.value))
                      ELSE None
                 ELSE IF props["unfinished_tag"] # None
                         /\ query_type = "Completion"
                         /\ PointLt(props["unfinished_tag"][1].end_position, trigger_point)
                 THEN Some(AttributeName(Fresh))
                 ELSE Some(AttributeName(attr_name.value))

query_name(attrs, trigger_point, query_type) ==
    LET props == query_props(HX_NAME(attrs), Source(attrs), trigger_point)
    IN  IF props["attr_name"] = None THEN None
        ELSE LET attr_name == props["attr_name"][1]
             IN  IF props["unfinished_tag"] # None
                    /\ query_type = "Hover"
                 THEN IF props["complete_match"] # None
                         /\ PointLe(trigger_point, attr_name.end_position)
                      THEN Some(AttributeName(attr_name.value))
                      ELSE None
                 ELSE IF props["unfinished_tag"] # None
                         /\ query_type = "Completion"
                         /\ PointLt(props["unfinished_tag"][1].end_position, trigger_point)
                 THEN Some(AttributeName(Fresh))
                 ELSE IF props["unfinished_tag"] # None
                         /\ props["equal_error"] # None
                         /\ query_type = "Completion"
                 THEN None
                 ELSE Some(AttributeName(attr_name.value))

query_value_nonempty_first(attrs, trigger_point, query_type) ==
    LET props == query_props(HX_VALUE(attrs), Source(attrs), trigger_point)
    IN  IF props["attr_name"] = None THEN None
        ELSE LET attr_name == props["attr_name"][1]
             IN  IF PointLt(trigger_point, attr_name.end_position) /\ query_type = "Hover"
                 THEN Some(AttributeName(attr_name.value))
                 ELSE IF props["error_char"] # None /\ props["error_char"][1].value = <<"=">>
                 THEN None
                 ELSE IF props["non_empty_attribute"] # None
                 THEN IF PointLe(props["non_empty_attribute"][1].end_position, trigger_point)
                      THEN None
                      ELSE IF query_type = "Hover" /\ props["attr_value"] = None
                      THEN Panicked
                      ELSE Some(AttributeValue(attr_name.value,
                                               IF query_type = "Hover"
                                               THEN props["attr_value"][1].value
                                               ELSE <<>>))
                 ELSE IF props["open_quote_error"] # None \/ props["empty_attribute"] # None
                 THEN IF query_type = "Completion"
                         /\ props["quoted_attr_value"] # None
                         /\ PointLe(props["quoted_attr_value"][1].end_position, trigger_point)
                      THEN None
                      ELSE Some(AttributeValue(attr_name.value, <<>>))
                 ELSE Some(AttributeValue(attr_name.value, <<>>))

\* a value step that looks at the = error character before the open quote
\* and the empty value
query_value_error_first(attrs, trigger_point, query_type) ==
    LET props == query_props(HX_VALUE(attrs), Source(attrs), trigger_point)
    IN  IF props["attr_name"] = None THEN None
        ELSE LET attr_name == props["attr_name"][1]
             IN  IF PointLt(trigger_point, attr_name.end_position) /\ query_type = "Hover"
                 THEN Some(AttributeName(attr_name.value))
                 ELSE IF props["error_char"] # None /\ props["error_char"][1].value = <<"=">>
                 THEN None
                 ELSE IF props["open_quote_error"] # None \/ props["empty_attribute"] # None
                 THEN IF query_type = "Completion"
                         /\ props["quoted_attr_value"] # None
                         /\ PointLe(props["quoted_attr_value"][1].end_position, trigger_point)
                      THEN None
                      ELSE Some(AttributeValue(attr_name.value, <<>>))
                 ELSE IF props["non_empty_attribute"] # None
                 THEN IF PointLe(props["non_empty_attribute"][1].end_position, trigger_point)
                      THEN None
                      ELSE IF query_type = "Hover" /\ props["attr_value"] = None
                      THEN Panicked
                      ELSE Some(AttributeValue(attr_name.value,
                                               IF query_type = "Hover"
                                               THEN props["attr_value"][1].value
                                               ELSE <<>>))
                 ELSE Some(AttributeValue(attr_name.value, <<>>))

query_value_at_end(attrs, trigger_point, query_type) ==
    LET props == query_props(HX_VALUE(attrs), Source(attrs), trigger_point)
    IN  IF props["attr_name"] = None THEN None
        ELSE LET attr_name == props["attr_name"][1]
             IN  IF PointLe(trigger_point, attr_name.end_position) /\ query_type = "Hover"
                 THEN Some(AttributeName(attr_name.value))
                 ELSE IF props["open_quote_error"] # None \/ props["empty_attribute"] # None
                 THEN IF query_type = "Completion"
                         /\ props["quoted_attr_value"] # None
                         /\ PointLt(props["quoted_attr_value"][1].end_position, trigger_point)
                      THEN None
                      ELSE Some(AttributeValue(attr_name.value, <<>>))
                 ELSE IF props["error_char"] # None /\ props["error_char"][1].value = <<"=">>
                 THEN None
                 ELSE IF props["non_empty_attribute"] # None
                 THEN IF PointLt(props["non_empty_attribute"][1].end_position, trigger_point)
                      THEN None
                      ELSE IF query_type = "Hover" /\ props["attr_value"] = None
                      THEN Panicked
                      ELSE Some(AttributeValue(attr_name.value,
                                               IF query_type = "Hover"
                                               THEN props["attr_value"][1].value
                                               ELSE <<>>))
                 ELSE Some(AttributeValue(attr_name.value, <<>>))

query_value(attrs, trigger_point, query_type) ==
    LET props == query_props(HX_VALUE(attrs), Source(attrs), trigger_point)
    IN  IF props["attr_name"] = None THEN None
        ELSE LET attr_name == props["attr_name"][1]
             IN  IF PointLt(trigger_point, attr_name.end_position) /\ query_type = "Hover"
                 THEN Some(AttributeName(attr_name.value))
                 ELSE IF props["open_quote_error"] # None \/ props["empty_attribute"] # None
                 THEN IF query_type = "Completion"
                         /\ props["quoted_attr_value"] # None
                         /\ PointLe(props["quoted_attr_value"][1].end_position, trigger_point)
                      THEN None
                      ELSE Some(AttributeValue(attr_name.value, <<>>))
                 ELSE IF props["error_char"] # None /\ props["error_char"][1].value = <<"=">>
                 THEN None
                 ELSE IF props["non_empty_attribute"] # None
                 THEN IF PointLe(props["non_empty_attribute"][1].end_position, trigger_point)
                      THEN None
                      ELSE IF query_type = "Hover" /\ props["attr_value"] = None
                      THEN Panicked
                      ELSE Some(AttributeValue(attr_name.value,
                                               IF query_type = "Hover"
                                               THEN props["attr_value"][1].value
                                               ELSE <<>>))
                 ELSE Some(AttributeValue(attr_name.value, <<>>))

\* query_position: the node closest to the trigger point lies in the element
\* of the text, which is the element the two steps search
query_position(attrs, trigger_point, query_type) ==
    LET name == query_name(attrs, trigger_point, query_type)
    IN  IF name # None THEN name
        ELSE query_value(attrs, trigger_point, query_type)

\* The elements resolved: one or two attributes, a name= without a quote
\* only as the last one, a name=" with an open quote only alone
AttrNames ==
    {<<"h", "x", "-", "a">>, <<"h", "x", "-", "b">>, <<"i", "d">>,
     <<"x", "h", "x", "-", "c">>}

AttrValue == <<"v", "w">>

RegularAttrs == {Attr(n, f, AttrValue) : n \in AttrNames, f \in {"bare", "empty", "quoted"}}

EqAttrs == {Attr(n, "eq", <<>>) : n \in AttrNames}

OpenAttrs == {Attr(n, "open", <<>>) : n \in AttrNames}

Elements ==
    {<<a>> : a \in RegularAttrs \cup EqAttrs \cup OpenAttrs}
    \cup {<<a, b>> : a \in RegularAttrs, b \in RegularAttrs \cup EqAttrs}

QueryTypes == {"Hover", "Completion"}

\* one request: the resolver is run once on an element, a point and a mode;
\* the log keeps what each step answers
Resolve(attrs, trigger_point, query_type) ==
    /\ lock_free
    /\ last = <<>>
    /\ last' = <<[op |-> "query_position",
                  arg |-> <<attrs, trigger_point, query_type>>,
                  name |-> query_name(attrs, trigger_point, query_type),
                  value |-> query_value(attrs, trigger_point, query_type),
                  ret |-> query_position(attrs, trigger_point, query_type),
                  changed |-> FALSE]>>
    /\ UNCHANGED <<lspVars, document_map, reconciled, issued, walk, concVars>>

NextPosition ==
    \E attrs \in Elements : \E column \in 0..Len(Source(attrs)) :
        \E query_type \in QueryTypes : Resolve(attrs, Point(0, column), query_type)

SpecPosition == Init /\ [][NextPosition]_vars

\* the log holds a request in the given mode
Resolved(query_type) == IsCall(1, "query_position") /\ last[1].arg[3] = query_type

\* the attribute of the request that holds the given name
NamesHx(name) == Len(name) >= 3 /\ SubSeq(name, 1, 3) = <<"h", "x", "-">>

\* the request of the log: its element, its trigger point
ReqAttrs == last[1].arg[1]
ReqPoint == last[1].arg[2]

\* attribute i of the request is a completed name="value" of an hx- name
\* and the trigger point lies strictly inside the span of its value
InsideValue(i) ==
    /\ ReqAttrs[i].form = "quoted"
    /\ NamesHx(ReqAttrs[i].name)
    /\ PointLt(ValueNode(ReqAttrs, i).start, ReqPoint)
    /\ PointLt(ReqPoint, ValueNode(ReqAttrs, i).end)

\* C17: for every cursor point strictly inside the value span of a completed
\* hx-* attribute name="value", query_position in Hover mode returns
\* AttributeValue{name, value}, name that attribute's name and value the
\* text between the quotes.
C17_HoverInsideValue ==
    Resolved("Hover") =>
        \A i \in 1..Len(ReqAttrs) :
            InsideValue(i) =>
                last[1].ret = Some(AttributeValue(ReqAttrs[i].name, ReqAttrs[i].value))

\* attribute i of the request is an hx- name followed by = with no quote,
\* and the trigger point is at or after the end of the name
AfterUnstarted(i) ==
    /\ ReqAttrs[i].form = "eq"
    /\ NamesHx(ReqAttrs[i].name)
    /\ PointLe(NameNode(ReqAttrs, i).end, ReqPoint)

NoPosition == last[1].name = None /\ last[1].value = None /\ last[1].ret = None

Carried(ret) ==
    IF ret = None \/ ret = Panicked THEN None
    ELSE IF ret[1][2] = Fresh /\ ret[1][1] = "AttributeName" THEN None
    ELSE Some(ret[1][2])

\* the trigger point lies inside attribute i of the request
InsideAttr(i) ==
    /\ PointLe(AttributeNode(ReqAttrs, i).start, ReqPoint)
    /\ PointLt(ReqPoint, AttributeNode(ReqAttrs, i).end)

\* C19: only attributes whose name begins with hx- are considered: every
\* attribute name a returned position carries (other than "--") starts with
\* hx-, and a cursor inside an attribute of another name yields none.
C19_OnlyHxPrefix ==
    IsCall(1, "query_position") =>
        /\ Carried(last[1].ret) # None => NamesHx(Carried(last[1].ret)[1])
        /\ \A i \in 1..Len(ReqAttrs) :
               (InsideAttr(i) /\ ~NamesHx(ReqAttrs[i].name)) => last[1].ret = None

\* The comparisons of the trigger point with an end point, each in a request
\* where it decides the answer.

\* attribute i has an hx- name and no value: the name step holds its name
Valueless(i) == ReqAttrs[i].form \in {"bare", "eq"} /\ NamesHx(ReqAttrs[i].name)

\* attribute i has an hx- name and a value: the value step holds its name
Valued(i) == ReqAttrs[i].form \in {"empty", "quoted"} /\ NamesHx(ReqAttrs[i].name)

\* an attribute before attribute i is captured as an empty one
EmptyBefore(i) ==
    \E j \in 1..(i - 1) : ReqAttrs[j].form = "empty" /\ regex_is_match(ReqAttrs[j].name)

\* name step, Hover, the point at the end of the name: past the name
NameEndPast ==
    Resolved("Hover") =>
        \A i \in 1..Len(ReqAttrs) :
            (Valueless(i) /\ ReqPoint = NameNode(ReqAttrs, i).end)
                => last[1].name # Some(AttributeName(ReqAttrs[i].name))

\* name step, Hover, the point at the end of the name: still on the name
NameEndInside ==
    Resolved("Hover") =>
        \A i \in 1..Len(ReqAttrs) :
            (Valueless(i) /\ ReqPoint = NameNode(ReqAttrs, i).end)
                => last[1].name = Some(AttributeName(ReqAttrs[i].name))

\* name step, Completion, the point at the end of the tag: past the tag
TagEndPast ==
    (/\ Resolved("Completion")
     /\ \E i \in 1..Len(ReqAttrs) : Valueless(i)
     /\ ReqPoint = StartTagNode(ReqAttrs).end)
        => last[1].name = Some(AttributeName(Fresh))

\* name step, Completion: at the end of the tag the point is not past it,
\* one column further it is
TagEndInside ==
    (Resolved("Completion") /\ \E i \in 1..Len(ReqAttrs) : Valueless(i)) =>
            /\ ReqPoint = StartTagNode(ReqAttrs).end
                   => last[1].name # Some(AttributeName(Fresh))
            /\ ReqPoint = Point(0, StartTagNode(ReqAttrs).end[2] + 1)
                   => last[1].name = Some(AttributeName(Fresh))

\* value step: at the end of the name (Hover), of an empty quoted value
\* (Completion) and of a non-empty attribute the point is past the node
ValueEndsPast ==
    IsCall(1, "query_position") =>
        \A i \in 1..Len(ReqAttrs) :
            /\ (Resolved("Hover") /\ Valued(i) /\ ReqPoint = NameNode(ReqAttrs, i).end)
                   => last[1].value # Some(AttributeName(ReqAttrs[i].name))
            /\ (Resolved("Completion") /\ Valued(i) /\ ReqAttrs[i].form = "empty"
                /\ ReqPoint = QuotedNode(ReqAttrs, i).end)
                   => last[1].value = None
            /\ (Valued(i) /\ ReqAttrs[i].form = "quoted" /\ ~EmptyBefore(i)
                /\ ReqPoint = AttributeNode(ReqAttrs, i).end)
                   => last[1].value = None

\* C20: in every comparison of the cursor with an end point, in both modes
\* and in both steps, the end is exclusive: a cursor exactly at a node's end
\* is past the node, never still inside it.
C20_EndExclusive == NameEndPast /\ TagEndPast /\ ValueEndsPast

\* C20, amended: the comparisons of the value step are exclusive in both
\* modes; those of the name step are inclusive: in Hover a cursor at the end
\* of a value-less hx- name is still on the name, in Completion a cursor at
\* the end of the start tag is not past the tag.
C20_EndExclusiveInValueStep == NameEndInside /\ TagEndInside /\ ValueEndsPast

C20_Witness ==
    /\ Resolved("Hover")
    /\ ReqAttrs = <<Attr(<<"h", "x", "-", "a">>, "bare", AttrValue),
                    Attr(<<"h", "x", "-", "b">>, "quoted", AttrValue)>>
    /\ ReqPoint = NameNode(ReqAttrs, 1).end
    /\ last[1].ret = Some(AttributeName(<<"h", "x", "-", "a">>))

\* the trigger point lies in the span of the text of attribute i, its two
\* ends included
SpanContains(i) ==
    /\ PointLe(Point(0, AttrStart(ReqAttrs, i)), ReqPoint)
    /\ PointLe(ReqPoint, Point(0, AttrStart(ReqAttrs, i) + Len(AttrText(ReqAttrs[i]))))

\* the text between the quotes of an attribute
EnclosedText(a) == IF a.form = "quoted" THEN a.value ELSE <<>>

\* C21: with several hx-* attributes on an element the attribute reported is
\* chosen by span containment only: the name in the result is the name of
\* the attribute whose span holds the cursor and, in Hover mode, the value of
\* an AttributeValue is the value of that same attribute, never of a
\* neighbour that merely starts before the cursor.
C21_SpanContainment ==
    (/\ IsCall(1, "query_position")
     /\ Len(ReqAttrs) >= 2
     /\ \A i \in 1..Len(ReqAttrs) : ReqAttrs[i] \in RegularAttrs /\ NamesHx(ReqAttrs[i].name)
     /\ Carried(last[1].ret) # None) =>
        \E i \in 1..Len(ReqAttrs) :
            /\ SpanContains(i)
            /\ ReqAttrs[i].name = Carried(last[1].ret)[1]
            /\ (Resolved("Hover") /\ last[1].ret[1][1] = "AttributeValue")
                   => last[1].ret[1][3] = EnclosedText(ReqAttrs[i])

\* the captures the value step holds for the request
ValueProps == query_props(HX_VALUE(ReqAttrs), Source(ReqAttrs), ReqPoint)

\* the value step holds a name and an open-quote error or an empty quoted
\* value
EmptyBranch ==
    /\ ValueProps["attr_name"] # None
    /\ (ValueProps["open_quote_error"] # None \/ ValueProps["empty_attribute"] # None)

\* the request is a Hover with the cursor before the end of the name
HoveredName ==
    /\ last[1].arg[3] = "Hover"
    /\ PointLt(ReqPoint, ValueProps["attr_name"][1].end_position)

\* the cursor is at or past the end of a captured quoted value
PastQuoted ==
    /\ ValueProps["quoted_attr_value"] # None
    /\ PointLe(ValueProps["quoted_attr_value"][1].end_position, ReqPoint)

\* C22: in the value step, with an open-quote error capture or an empty
\* quoted value capture and no Hover over the name, Completion mode answers
\* none if a quoted value capture exists and the cursor is at or past its
\* end, and every other case, Hover included, answers
\* AttributeValue{name, ""}, whatever the = error character and the
\* non-empty captures are; every AttributeValue of Completion mode has an
\* empty value.
C22_EmptyValueBranch ==
    IsCall(1, "query_position") =>
        /\ (EmptyBranch /\ ~HoveredName) =>
               last[1].value =
                   IF last[1].arg[3] = "Completion" /\ PastQuoted
                   THEN None
                   ELSE Some(AttributeValue(ValueProps["attr_name"][1].value, <<>>))
        /\ Resolved("Completion") =>
               \A r \in {last[1].value, last[1].ret} :
                   (r # None /\ r[1][1] = "AttributeValue") => r[1][3] = <<>>

\* Hover past the = of a name= that follows an empty value: the branch
\* answers before the = error character is looked at
C22_Witness ==
    /\ Resolved("Hover")
    /\ EmptyBranch /\ ~HoveredName
    /\ ValueProps["error_char"] # None
    /\ ValueProps["error_char"][1].value = <<"=">>
    /\ last[1].value = Some(AttributeValue(ValueProps["attr_name"][1].value, <<>>))

\* Completion inside an empty value that follows a quoted one: the branch
\* answers before the non-empty capture is looked at
C22_WitnessCompletion ==
    /\ Resolved("Completion")
    /\ ReqAttrs = <<Attr(<<"h", "x", "-", "a">>, "quoted", AttrValue),
                    Attr(<<"h", "x", "-", "b">>, "empty", AttrValue)>>
    /\ ReqPoint = Point(0, QuotedNode(ReqAttrs, 2).start[2] + 1)
    /\ ValueProps["non_empty_attribute"] # None
    /\ last[1].ret = Some(AttributeValue(<<"h", "x", "-", "b">>, <<>>))

\* the same branch on the text of an open quote
C22_WitnessOpen ==
    /\ Resolved("Completion")
    /\ ReqAttrs = <<Attr(<<"h", "x", "-", "a">>, "open", <<>>)>>
    /\ ValueProps["open_quote_error"] # None
    /\ last[1].ret = Some(AttributeValue(<<"h", "x", "-", "a">>, <<>>))

---------------------------------------------------------------------------
(* The two scans for tags of htmx_tags.rs, each run once on an input *)

ScanPrefixes == {<<>>, <<" ">>, <<"/">>, <<"/", "/", " ">>, <<"a", " ">>}

ScanTokens == {<<"h", "x", "@", "a">>, <<"h", "x", "@", "a", "b">>}

ScanSuffixes == {<<>>, <<" ">>, <<" ", "b">>, <<" ", "h", "x", "@", "b">>}

ScanLines ==
    {p \o t \o q : p \in ScanPrefixes, t \in ScanTokens, q \in ScanSuffixes}
    \cup {<<>>, <<"a">>, <<"h", "x", "@">>, <<"h", "x", "@", " ", "a">>}

ScanValues ==
    GotoValues \cup {<<>>, <<"a">>, <<"a", " ">>, <<"h", "x", "@", "a">>}

\* in_tag on a line and a column
ScanLine(line, column) ==
    /\ lock_free
    /\ last = <<>>
    /\ last' = <<[op |-> "in_tag", arg |-> <<line, column>>,
                  tag |-> get_tag(line),
                  ret |-> in_tag(line, [row |-> 0, column |-> column]),
                  changed |-> FALSE]>>
    /\ UNCHANGED <<lspVars, document_map, reconciled, issued, walk, concVars>>

\* in_tags on a value, the column where it starts and a column; where the
\* arithmetic overflows the call panics or goes on with the wrapped number,
\* as the build decides
ScanValue(value, start, column) ==
    /\ lock_free
    /\ last = <<>>
    /\ LET definition == PositionDefinition(0, start, column)
           tags_ == get_tags(value, start, 0)
           overflows == IsSome(tags_) /\ get_tags_overflows(str_split(value, Space), start)
       IN  \E panics \in (IF overflows THEN {TRUE, FALSE} ELSE {FALSE}) :
               last' = <<[op |-> "in_tags", arg |-> <<value, start, column>>,
                          overflows |-> overflows,
                          tags |-> IF panics THEN Panicked ELSE tags_,
                          ret |-> IF panics THEN Panicked ELSE in_tags(value, definition),
                          changed |-> FALSE]>>
    /\ UNCHANGED <<lspVars, document_map, reconciled, issued, walk, concVars>>

NextScan ==
    \/ \E line \in ScanLines : \E column \in 0..(Len(line) + 1) : ScanLine(line, column)
    \/ \E value \in ScanValues : \E start \in 0..ValueStart :
           \E column \in 0..(Len(value) + 1 + start) : ScanValue(value, start, column)

SpecScan == Init /\ [][NextScan]_vars

\* the columns where the line holds hx@ and then a character that is not a
\* space
TokenStarts(line) ==
    {c \in 0..(Len(line) - 4) : SubSeq(line, c + 1, c + 3) = HxAt /\ line[c + 4] # " "}

FirstTokenStart(line) == CHOOSE c \in TokenStarts(line) : \A d \in TokenStarts(line) : c <= d

\* the characters from column c up to the next space or the end of the line
TokenAt(line, c) ==
    LET ends == {e \in c..Len(line) : \A k \in (c + 1)..e : line[k] # " "}
    IN  SubSeq(line, c + 1, CHOOSE e \in ends : \A f \in ends : f <= e)

FirstToken(line) == TokenAt(line, FirstTokenStart(line))

\* C23: on the same input the whole-line scan (get_tag) and the multi-tag
\* scan (get_tags, started at the column of the tag) agree on the
\* boundaries of the token: same start column, same end column, and a
\* column is inside the tag for in_tag exactly when it is for in_tags.
C23_ScansAgree ==
    (IsCall(1, "in_tag") /\ TokenStarts(last[1].arg[1]) # {}) =>
        LET line == last[1].arg[1]
            c == FirstTokenStart(line)
            tags_ == get_tags(FirstToken(line), c, 0)
            found == in_tags(FirstToken(line), PositionDefinition(0, c, last[1].arg[2]))
        IN  /\ IsSome(tags_) /\ Len(Unwrap(tags_)) = 1
            /\ IsSome(last[1].tag)
            /\ Unwrap(last[1].tag).start = Unwrap(tags_)[1].start
            /\ Unwrap(last[1].tag).end = Unwrap(tags_)[1].end
            /\ IsSome(last[1].ret) <=> IsSome(found)

\* C24: get_tag returns a tag exactly when the line holds hx@ followed at
\* once by a non-empty run of characters that are not spaces, whatever is
\* before or after the token; the name returned is not empty and holds no
\* space, and start to end cover exactly the first such token.
C24_GetTagLexical ==
    IsCall(1, "in_tag") =>
        LET line == last[1].arg[1]
        IN  /\ IsSome(last[1].tag) <=> TokenStarts(line) # {}
            /\ IsSome(last[1].tag) =>
                   /\ Unwrap(last[1].tag).name # <<>>
                   /\ ~str_contains(Unwrap(last[1].tag).name, Space)
                   /\ HxAt \o Unwrap(last[1].tag).name = FirstToken(line)
                   /\ Unwrap(last[1].tag).start = FirstTokenStart(line)
                   /\ Unwrap(last[1].tag).end
                          = FirstTokenStart(line) + Len(FirstToken(line)) - 1

\* C30: get_tags never underflows start + part.len() - 1: for every value it
\* accepts, the empty value and a value ending in one space included, and
\* every start column, 0 included, each end is computed without
\* wrap-around, and of two consecutive tags the second starts at the end of
\* the first plus 2.
C30_NoUnderflow ==
    (IsCall(1, "in_tags") /\ get_tags(last[1].arg[1], last[1].arg[2], 0) # None) =>
        /\ ~last[1].overflows
        /\ last[1].tags # Panicked
        /\ \A i \in 1..(Len(Unwrap(last[1].tags)) - 1) :
               Unwrap(last[1].tags)[i + 1].start = Unwrap(last[1].tags)[i].end + 2

\* C28: query_value never panics: whenever Hover mode reaches the read of
\* the attr_value capture, that capture is present, for every element and
\* every cursor point, a cursor on the = or on the opening quote of the
\* first valued hx-* attribute included.
C28_ValueStepNeverPanics ==
    IsCall(1, "query_position") =>
        /\ last[1].value # Panicked
        /\ last[1].ret # Panicked

---------------------------------------------------------------------------
(* Reconciliation of the tags of one file *)

\* the step is a save of a registered file that ran add_tags_from_file
SaveStep ==
    /\ last' # last
    /\ last'[1].op = "saved"
    /\ last'[1].ret # None

\* the tags of the sequence that are rejected when the names in taken are
\* owned by other files: a name in taken, or a name met earlier in the
\* sequence
RECURSIVE Rejected(_, _, _)
Rejected(found, taken, index) ==
    IF found = <<>> THEN <<>>
    ELSE (IF Head(found).name \in taken THEN <<set_file(Head(found), index)>> ELSE <<>>)
         \o Rejected(Tail(found), taken \cup {Head(found).name}, index)

\* the first tag of the sequence with the given name
FirstNamed(found, name) ==
    found[CHOOSE i \in 1..Len(found) :
              found[i].name = name /\ \A j \in 1..(i - 1) : found[j].name # name]

\* C25: reconciling file f removes every tag owned by f before inserting:
\* afterwards the tags owned by f are exactly the extracted names not
\* owned by another file (the first occurrence within f wins), every tag
\* owned by another file is unchanged, every rejected tag is appended to
\* the diagnostics with file = f, and when f has no tree entry the registry
\* and the diagnostics are left untouched.
C25_Reconcile ==
    [][SaveStep =>
        LET f == indexes[last'[1].arg[1]]
            text == document_map[last'[1].arg[1]]
            diags == Unwrap(last'[1].ret)
        IN  IF f \notin DOMAIN trees
            THEN tags' = tags /\ diags = <<>>
            ELSE LET found == query_tag(trees[f][1], text)
                     names == {found[i].name : i \in 1..Len(found)}
                     others == {n \in DOMAIN tags : tags[n].file # f}
                 IN  /\ {n \in DOMAIN tags' : tags'[n].file = f} = names \ others
                     /\ \A n \in names \ others :
                            tags'[n] = set_file(FirstNamed(found, n), f)
                     /\ \A n \in others : n \in DOMAIN tags' /\ tags'[n] = tags[n]
                     /\ diags = Rejected(found, others, f)
                     /\ \A k \in 1..Len(diags) : diags[k].file = f
    ]_vars

\* a save has replaced the tags of the file and reported a rejected one
C25_Witness ==
    /\ Just("saved")
    /\ last[1].ret # None
    /\ last[1].changed
    /\ Len(Unwrap(last[1].ret)) >= 1
    /\ \E n \in DOMAIN tags : tags[n].file = indexes[last[1].arg[1]]

---------------------------------------------------------------------------
(* Lifecycle of a file *)

\* every registered URI has had its content stored and a tree made of it
RegisteredWasRead ==
    \A uri \in DOMAIN indexes :
        uri \in DOMAIN document_map /\ indexes[uri] \in DOMAIN trees

\* a registered URI keeps its FileId, unless the step is the full reset
KeepsFileId ==
    \/ indexes' = EmptyMap
    \/ \A uri \in DOMAIN indexes :
           uri \in DOMAIN indexes' /\ indexes'[uri] = indexes[uri]

\* C26: a URI enters the Document Index only when canonicalization and
\* reading of the file both succeed, so every registered URI has had its
\* content read and a parse attempted; once registered it keeps its FileId
\* through every later edit and save and leaves the index only on a full
\* reset.
C26_Lifecycle == [](RegisteredWasRead) /\ [][KeepsFileId]_vars

\* the walk has returned an error at a file that was canonicalized and read:
\* the file was registered already
FailedOnRegistered ==
    /\ Just("walkdir")
    /\ last[1].ret[1] = "Err"
    /\ IsSome(last[1].failed)
    /\ Unwrap(last[1].failed).outcome.canon_ok
    /\ IsSome(Unwrap(last[1].failed).outcome.content)

\* C27: when the walk meets a file whose URI is already registered in this
\* scan (the same file under two configured roots), the second registration
\* is a no-op: the FileId and the tree are kept and the walk goes on to its
\* end without reporting an error.
C27_DuplicateIsNoop == ~FailedOnRegistered

---------------------------------------------------------------------------
(* The registry against the reconciled texts *)

\* the tag names extracted from the text the file was last reconciled on
ExtractedNames(f) ==
    IF f \in DOMAIN reconciled /\ f \in DOMAIN trees
    THEN LET found == query_tag(trees[f][1], reconciled[f])
         IN  {found[i].name : i \in 1..Len(found)}
    ELSE {}

IndexedFiles == {indexes[uri] : uri \in DOMAIN indexes}

\* C29: after any sequence of scans, edits and saves, every tag name
\* extracted from the last reconciled text of an indexed file is in the
\* registry, owned by an indexed file whose reconciled text contains it: a
\* tag that lost a duplicate conflict does not stay missing once the file
\* that won the conflict no longer contains it.
C29_ExtractedTagsRegistered ==
    \A f \in IndexedFiles :
        \A n \in ExtractedNames(f) :
            /\ n \in DOMAIN tags
            /\ tags[n].file \in IndexedFiles
            /\ n \in ExtractedNames(tags[n].file)

====
